---- MODULE Spec2Model ----
(***************************************************************************)
(* A model of cairo-debugger: the debug session that sits between a DAP    *)
(* client and the Cairo VM.                                                *)
(*                                                                         *)
(* The sources hold two session drivers, and the model runs either one     *)
(* (variable impl, fixed at start):                                        *)
(*   "debugger"  src/debugger.rs (initialize, sync_with_vm,                *)
(*               process_until_resume, process_request, Drop) with the     *)
(*               request handler of src/debugger/handler.rs, the State of  *)
(*               src/debugger/state.rs and the hook of src/debugger/vm.rs  *)
(*   "core"      src/debugger/core.rs (initialize, sync,                   *)
(*               process_until_resume, Drop) with the request handler of   *)
(*               src/debugger/handlers.rs                                  *)
(* Both talk to the client through the queues of src/connection.rs.        *)
(*                                                                         *)
(* Specifications:                                                         *)
(*   Spec           the session, either driver, with its reader thread     *)
(*   SpecIo         the session with the reader and the writer thread      *)
(*   SpecLive       the session under weak fairness of its thread and the  *)
(*                  VM                                                     *)
(*   SpecTeardown   the session, both worker threads and the teardown of   *)
(*                  the Connection, under weak fairness                    *)
(*   SpecCallStack  CallStack::update and State::update_state over any     *)
(*                  program                                                *)
(*   SpecAdvance    CallStack::update over the statements 3, 7 and 10      *)
(*   SpecFrames     CallStack::get_frames and stack_trace's frame          *)
(*   SpecContext    the breakpoint index and the lookups of Context        *)
(*   SpecVariables  CallStack::get_variables over references handed out    *)
(*                  at any earlier stop                                    *)
(*   SpecQueued     the session with its requests queued before it starts  *)
(*   SpecBreakpoints  State's breakpoint table under set and clear         *)
(*                                                                         *)
(* debugger.rs:67 hands each request to the handler and propagates its     *)
(* error; the handler of handler.rs enqueues its response and its event    *)
(* itself, so an arm's outbound messages and their order are those of      *)
(* handler.rs.                                                             *)
(***************************************************************************)
EXTENDS Integers, Sequences, FiniteSets, TLC

VARIABLES
    impl,                    \* which session driver runs
    phase,                   \* where the session thread is
    result,                  \* how the session's run ended
    inbound,                 \* Connection.inbound_rx: requests decoded, not yet taken
    outbound,                \* every Sendable enqueued on Connection.outbound_tx, in order
    taken,                   \* history: the requests taken from inbound, in order
    nsent,                   \* number of requests the client has sent
    readerAlive,             \* the reader thread still holds inbound_tx
    configuration_done,      \* State.configuration_done
    execution_stopped,       \* State.execution_stopped
    breakpoints,             \* State.breakpoints: source path -> set of statement indexes
    current_statement_idx,   \* State.current_statement_idx
    call_ids,                \* CallStack.call_ids (the statement of each stored frame)
    action_on_new_statement, \* CallStack.action_on_new_statement
    vm_pc,                   \* the VM's program counter (vm.get_pc().offset)
    program,                 \* Context.program.statements: the kind of each statement
    statement_to_pc,         \* CasmDebugInfo.statement_to_pc
    code_locations,          \* Context.code_locations.statements_code_locations
    files_data,              \* Context.files_data: (file, line) -> start offset
    trace,                   \* history: the statements fed to CallStack.update
    min_col_map,             \* build_file_locations_map's intermediate file_map:
                             \*   (file, line) -> (min column, pc)
    lookup,                  \* the last debug-information lookup and what it returned
    function_names,          \* Context.function_names.statements_functions
    depths,                  \* history: CallStack.depth after each update
    frames,                  \* the last stack-frame rendering and what it returned
    decoded,                 \* history: the requests the reader thread decoded, in order
    written,                 \* what the writer thread has written to the socket, in order
    nrecv,                   \* number of Sendables the writer thread has received
    writerAlive              \* the writer thread still holds outbound_rx

vars == <<impl, phase, result, inbound, outbound, taken, nsent, readerAlive,
          configuration_done, execution_stopped, breakpoints,
          current_statement_idx, call_ids, action_on_new_statement, vm_pc,
          program, statement_to_pc, code_locations, files_data, trace,
          min_col_map, lookup, function_names, depths, frames, decoded, written, nrecv, writerAlive>>

sessionVars == <<impl, phase, result, inbound, outbound, taken, nsent, readerAlive,
                 configuration_done, execution_stopped, breakpoints, vm_pc>>

callStackVars == <<current_statement_idx, call_ids, action_on_new_statement, trace,
                   depths, frames>>

contextVars == <<program, statement_to_pc, code_locations, files_data, min_col_map,
                 lookup, function_names>>

ioVars == <<decoded, written, nrecv, writerAlive>>

----------------------------------------------------------------------------
\* Bounds of the model.

\* Requests the client sends in one session.
MaxRequests == 3

\* The VM's program counter ranges over 0..MaxPc.
MaxPc == 2

\* Statements of the Sierra program in the call-stack specification.
NumStatements == 3

\* Statements fed to CallStack.update in the call-stack specification.
MaxTrace == 4

\* Stored call frames in the stack-frame specification.
MaxFrames == 2

\* Requests the client sends in the specification with the writer thread.
MaxIoRequests == 2

----------------------------------------------------------------------------
\* Sequence helpers.

Last(s) == s[Len(s)]

Front(s) == SubSeq(s, 1, Len(s) - 1)

SeqsUpTo(S, n) == UNION {[1..k -> S] : k \in 0..n}

----------------------------------------------------------------------------
\* The DAP commands (dap::prelude::Command), by the arm of handle_request that
\* takes them.

UnsupportedCommands ==
    {"BreakpointLocations", "Cancel", "Completions", "DataBreakpointInfo",
     "Disassemble", "Goto", "ExceptionInfo", "GotoTargets", "LoadedSources",
     "Modules", "ReadMemory", "RestartFrame", "SetDataBreakpoints", "Restart",
     "SetExceptionBreakpoints", "TerminateThreads", "Terminate",
     "StepInTargets", "SetVariable", "SetInstructionBreakpoints",
     "SetExpression", "WriteMemory"}

NotYetSupportedCommands == {"ReverseContinue", "StepBack", "SetFunctionBreakpoints"}

RejectedCommands == UnsupportedCommands \cup {"Attach"} \cup NotYetSupportedCommands

TodoCommands == {"Next", "StepIn", "StepOut", "Source", "Disconnect"}

InspectCommands == {"Threads", "StackTrace", "Scopes", "Variables", "Evaluate"}

SupportedCommands ==
    {"Initialize", "Launch", "ConfigurationDone", "Pause", "Continue",
     "SetBreakpoints"} \cup InspectCommands

\* The commands the modelled client sends: every arm of handle_request, with the
\* first and the last command of the 22-command arm standing for that arm.
ClientCommands ==
    SupportedCommands \cup TodoCommands \cup NotYetSupportedCommands
        \cup {"Attach", "BreakpointLocations", "WriteMemory"}

\* Source files and (1-based, as DAP sends them) lines a SetBreakpoints names.
Files == {"a.cairo"}

Lines == {1, 5}

\* The line lists a SetBreakpoints carries: none, a line with a statement (1), a
\* line without one (5), and both.
LineLists == {<<>>, <<1>>, <<5>>, <<5, 1>>}

NoFile == "-"

Request(seq, command, file, lines) ==
    [seq |-> seq, command |-> command, file |-> file, lines |-> lines]

\* The requests the client may send with sequence number seq.
Requests(seq) ==
    {Request(seq, c, NoFile, <<>>) : c \in ClientCommands \ {"SetBreakpoints"}}
        \cup {Request(seq, "SetBreakpoints", f, ls) :
                f \in Files, ls \in LineLists}

----------------------------------------------------------------------------
\* Sendable (dap::base_message::Sendable): what travels on outbound_tx.

NoBody == [name |-> "-", breakpoints |-> <<>>, message |-> "-"]

\* Request::success(body)
SuccessResponse(request, body) ==
    [type |-> "response", request_seq |-> request.seq, success |-> TRUE,
     body |-> body, event |-> "-"]

\* Request::error(msg)
ErrorResponse(request, msg) ==
    [type |-> "response", request_seq |-> request.seq, success |-> FALSE,
     body |-> [NoBody EXCEPT !.message = msg], event |-> "-"]

EventMessage(event) ==
    [type |-> "event", request_seq |-> 0, success |-> FALSE,
     body |-> NoBody, event |-> event]

\* ResponseBody::X without a payload the model follows.
Body(name) == [NoBody EXCEPT !.name = name]

IsResponse(m) == m.type = "response"

IsEvent(m, event) == m.type = "event" /\ m.event = event

----------------------------------------------------------------------------
\* The request handler of src/debugger/handler.rs. An arm yields what it
\* enqueues on the outbound queue (out, in order), how it ends (outcome: "ok" for
\* Ok(()), "err" for a bail!, "panic" for a todo!()) and the State flags it
\* leaves.

HandlerReturn(out, outcome) ==
    [out |-> out, outcome |-> outcome,
     configuration_done |-> configuration_done,
     execution_stopped |-> execution_stopped]

\* A rejected arm that bails without sending the error response.
bail_without_response(request, msg) == HandlerReturn(<<>>, "err")

\* connection.send_error(request, msg)?; bail!(..)
send_error_and_bail(request, msg) ==
    HandlerReturn(<<ErrorResponse(request, msg)>>, "err")

\* todo!()
todo(request) == HandlerReturn(<<>>, "panic")

\* connection.send_success(request, body)?; Ok(())
send_success_ok(request, body) ==
    HandlerReturn(<<SuccessResponse(request, body)>>, "ok")

unsupported_arm(request) ==
    send_error_and_bail(request, "Received an unsupported request")

attach_arm(request) == send_error_and_bail(request, "Attach is not supported")

not_yet_supported_arm(request) ==
    send_error_and_bail(request,
        CASE request.command = "ReverseContinue" -> "Reverse continue is not yet supported"
          [] request.command = "StepBack" -> "Step back is not yet supported"
          [] OTHER -> "Set function breakpoints is not yet supported")

initialize_arm(request) ==
    HandlerReturn(<<SuccessResponse(request, Body("Initialize")),
                    EventMessage("initialized")>>, "ok")

\* State::set_configuration_done
set_configuration_done(r) == [r EXCEPT !.configuration_done = TRUE]

\* A Launch arm that starts the program: it marks the configuration done.
launch_arm_starts_program(request) ==
    set_configuration_done(send_success_ok(request, Body("Launch")))

launch_arm(request) == send_success_ok(request, Body("Launch"))

\* State::stop_execution
stop_execution(r) == [r EXCEPT !.execution_stopped = TRUE]

\* State::resume_execution
resume_execution(r) == [r EXCEPT !.execution_stopped = FALSE]

configuration_done_arm(request) ==
    set_configuration_done(send_success_ok(request, Body("ConfigurationDone")))

pause_arm(request) ==
    stop_execution(
        HandlerReturn(<<EventMessage("stopped"),
                        SuccessResponse(request, Body("Pause"))>>, "ok"))

\* A Continue arm that answers without clearing the stop flag.
continue_arm_without_resume(request) == send_success_ok(request, Body("Continue"))

continue_arm(request) ==
    resume_execution(send_success_ok(request, Body("Continue")))

\* One Breakpoint per requested line, in request order, each verified.
response_bps(lines) ==
    [i \in 1..Len(lines) |-> [verified |-> TRUE, line |-> lines[i]]]

set_breakpoints_arm(request) ==
    send_success_ok(request,
        [Body("SetBreakpoints") EXCEPT !.breakpoints = response_bps(request.lines)])

\* An inspection arm that also resumes execution.
inspect_arm_resumes(request) ==
    resume_execution(send_success_ok(request, Body(request.command)))

\* Threads, StackTrace, Scopes, Variables, Evaluate: a fixed body.
inspect_arm(request) == send_success_ok(request, Body(request.command))

handle_request(request) ==
    CASE request.command \in UnsupportedCommands -> unsupported_arm(request)
      [] request.command = "Attach" -> attach_arm(request)
      [] request.command \in NotYetSupportedCommands -> not_yet_supported_arm(request)
      [] request.command = "Initialize" -> initialize_arm(request)
      [] request.command = "Launch" -> launch_arm(request)
      [] request.command = "ConfigurationDone" -> configuration_done_arm(request)
      [] request.command = "Pause" -> pause_arm(request)
      [] request.command = "Continue" -> continue_arm(request)
      [] request.command = "SetBreakpoints" -> set_breakpoints_arm(request)
      [] request.command \in InspectCommands -> inspect_arm(request)
      [] request.command \in TodoCommands -> todo(request)

----------------------------------------------------------------------------
\* The request handler of src/debugger/handlers.rs: the same messages, and a
\* HandleResult (next) in place of the State flags.

HandleResult(r, next) ==
    [out |-> r.out, outcome |-> r.outcome, next |-> next]

core_handle_request(request) ==
    CASE request.command \in UnsupportedCommands ->
            HandleResult(unsupported_arm(request), "-")
      [] request.command = "Attach" -> HandleResult(attach_arm(request), "-")
      [] request.command = "Initialize" ->
            HandleResult(initialize_arm(request), "Handled")
      [] request.command = "Launch" -> HandleResult(launch_arm(request), "Handled")
      [] request.command = "ConfigurationDone" ->
            HandleResult(send_success_ok(request, Body("ConfigurationDone")),
                         "FinishInit")
      [] request.command \in NotYetSupportedCommands ->
            HandleResult(not_yet_supported_arm(request), "-")
      [] request.command \in {"Next", "Source", "StepIn", "StepOut"} ->
            HandleResult(todo(request), "-")
      [] request.command \in InspectCommands ->
            HandleResult(inspect_arm(request), "Handled")
      [] request.command = "Continue" ->
            HandleResult(send_success_ok(request, Body("Continue")), "Resume")
      [] request.command = "SetBreakpoints" ->
            HandleResult(set_breakpoints_arm(request), "Handled")
      [] request.command = "Pause" ->
            HandleResult(
                HandlerReturn(<<EventMessage("stopped"),
                                SuccessResponse(request, Body("Pause"))>>, "ok"),
                "Stop")
      [] request.command = "Disconnect" -> HandleResult(todo(request), "-")

----------------------------------------------------------------------------
\* Context (src/debugger/context.rs). Statement indexes are 0-based as in the
\* source; the sequences that hold them are 1-based.

None == [some |-> FALSE, value |-> 0]

Some(v) == [some |-> TRUE, value |-> v]

StatementCount == Len(statement_to_pc)

\* A partition point with the predicate offset < pc.
partition_point_strict(pc) ==
    IF \E i \in 1..StatementCount : ~(statement_to_pc[i] < pc)
    THEN (CHOOSE i \in 1..StatementCount :
              /\ ~(statement_to_pc[i] < pc)
              /\ \A j \in 1..(i - 1) : statement_to_pc[j] < pc) - 1
    ELSE StatementCount

\* slice::partition_point(|offset| offset <= pc) on the sorted offsets: the
\* index of the first offset that is not <= pc, or the length.
partition_point(pc) ==
    IF \E i \in 1..StatementCount : ~(statement_to_pc[i] <= pc)
    THEN (CHOOSE i \in 1..StatementCount :
              /\ ~(statement_to_pc[i] <= pc)
              /\ \A j \in 1..(i - 1) : statement_to_pc[j] <= pc) - 1
    ELSE StatementCount

\* A subtraction that goes below zero.
wrapping_sub(a, b) == a - b

\* usize::saturating_sub
saturating_sub(a, b) == IF a >= b THEN a - b ELSE 0

statement_idx_for_pc(pc) == saturating_sub(partition_point(pc), 1)

\* &self.program.statements[statement_idx.0]
statement_idx_to_statement(statement_idx) == program[statement_idx + 1]

is_return_statement(statement_idx) ==
    statement_idx_to_statement(statement_idx) = "return"

is_function_call_statement(statement_idx) ==
    statement_idx_to_statement(statement_idx) = "call"

\* A filter that skips no statement.
skips_no_statement(idx) == FALSE

\* context.rs:173-178: the next statement starts at the same offset.
next_statement_has_same_pc(idx) ==
    /\ idx + 2 <= StatementCount
    /\ statement_to_pc[idx + 2] = statement_to_pc[idx + 1]

\* An and_modify that compares the columns only.
insert_location_by_column_only(file_map, loc, pc) ==
    LET key == <<loc.file, loc.line>> IN
    IF key \in DOMAIN file_map
    THEN IF loc.col < file_map[key].col
         THEN [file_map EXCEPT ![key] = [col |-> loc.col, pc |-> pc]]
         ELSE file_map
    ELSE [k \in DOMAIN file_map \cup {key} |->
            IF k = key THEN [col |-> loc.col, pc |-> pc] ELSE file_map[k]]

\* context.rs:192-202: lines_in_file.entry(line).and_modify(..).or_insert((col, pc))
insert_location(file_map, loc, pc) ==
    LET key == <<loc.file, loc.line>> IN
    IF key \in DOMAIN file_map
    THEN IF \/ loc.col < file_map[key].col
            \/ (loc.col = file_map[key].col /\ pc < file_map[key].pc)
         THEN [file_map EXCEPT ![key] = [col |-> loc.col, pc |-> pc]]
         ELSE file_map
    ELSE [k \in DOMAIN file_map \cup {key} |->
            IF k = key THEN [col |-> loc.col, pc |-> pc] ELSE file_map[k]]

RECURSIVE insert_locations(_, _, _)
\* context.rs:180-203: for loc in locations
insert_locations(file_map, locations, pc) ==
    IF locations = <<>> THEN file_map
    ELSE insert_locations(insert_location(file_map, Head(locations), pc),
                          Tail(locations), pc)

RECURSIVE fold_statements(_, _)
\* context.rs:149-204: the loop over the annotated statements, visited in order
\* (a sequence of statement indexes: the HashMap's iteration order).
fold_statements(file_map, order) ==
    IF order = <<>> THEN file_map
    ELSE LET idx == Head(order)
             pc == statement_to_pc[idx + 1]
         IN fold_statements(
                IF next_statement_has_same_pc(idx) THEN file_map
                ELSE insert_locations(file_map, code_locations[idx], pc),
                Tail(order))

\* The final map drops the columns (context.rs:208-218).
build_file_locations_map(order) ==
    LET file_map == fold_statements(<<>>, order) IN
    [k \in DOMAIN file_map |-> file_map[k].pc]

\* A lookup that snaps an unmapped line to the next line of the file.
get_pc_for_line_snapping(source, line) ==
    IF <<source, line>> \in DOMAIN files_data
    THEN Some(files_data[<<source, line>>])
    ELSE IF <<source, line + 1>> \in DOMAIN files_data
    THEN Some(files_data[<<source, line + 1>>])
    ELSE None

\* Context::get_pc_for_line: the entry of the exact (file, line), or None.
get_pc_for_line(source, line) ==
    IF <<source, line>> \in DOMAIN files_data
    THEN Some(files_data[<<source, line>>])
    ELSE None

\* Context::statement_idxs_for_breakpoint, called by state.rs:68: the statement
\* that stands for the line in the breakpoint index, if the line has an entry.
statement_idxs_for_breakpoint(source, line) ==
    LET pc == get_pc_for_line(source, line) IN
    IF pc.some THEN Some({statement_idx_for_pc(pc.value)}) ELSE None

----------------------------------------------------------------------------
\* CallStack (src/debugger/call_stack.rs).

NoAction == [kind |-> "None", statement |-> 0]

Push(statement) == [kind |-> "Push", statement |-> statement]

Pop == [kind |-> "Pop", statement |-> 0]

\* A Pop that leaves a frame behind when the stack is empty.
apply_action_pop_underflows(ids, action) ==
    CASE action.kind = "Push" -> Append(ids, action.statement)
      [] action.kind = "Pop" -> IF ids = <<>> THEN <<0>> ELSE Front(ids)
      [] OTHER -> ids

\* call_stack.rs:46-55: match self.action_on_new_statement.take(); Vec::pop on
\* the empty vector returns None and changes nothing.
apply_action(ids, action) ==
    CASE action.kind = "Push" -> Append(ids, action.statement)
      [] action.kind = "Pop" -> IF ids = <<>> THEN ids ELSE Front(ids)
      [] OTHER -> ids

\* call_stack.rs:57-61: the action the new statement defers
new_action(statement_idx) ==
    IF is_function_call_statement(statement_idx) THEN Push(statement_idx)
    ELSE IF is_return_statement(statement_idx) THEN Pop
    ELSE NoAction

\* An update that applies the new statement's own action at once.
update_immediately(ids, action, statement_idx) ==
    [call_ids |-> apply_action(ids, new_action(statement_idx)),
     action_on_new_statement |-> NoAction]

\* An update that drops the pending action instead of applying it.
update_without_pending(ids, action, statement_idx) ==
    [call_ids |-> ids, action_on_new_statement |-> new_action(statement_idx)]

\* CallStack::update, on the stack (ids, action)
update(ids, action, statement_idx) ==
    [call_ids |-> apply_action(ids, action),
     action_on_new_statement |-> new_action(statement_idx)]

\* CallStack::depth
depth(ids) == Len(ids)

\* The first object reference (call_stack.rs:18-20: a frame's reference is
\* 1 + 2 * index).
MIN_OBJECT_REFERENCE == 1

\* Context::code_location_for_statement_idx: the first location, if any
code_location_for_statement_idx(statement_idx) ==
    IF statement_idx \in DOMAIN code_locations /\ code_locations[statement_idx] # <<>>
    THEN Some(code_locations[statement_idx][1])
    ELSE None

\* Context::code_locations_for_statement_idx, called by call_stack.rs:101: the
\* locations the statement is annotated with, if it is annotated.
code_locations_for_statement_idx(statement_idx) ==
    IF statement_idx \in DOMAIN code_locations
    THEN Some(code_locations[statement_idx])
    ELSE None

\* Context::function_names_for_statement_idx, called by call_stack.rs:107
function_names_for_statement_idx(statement_idx) ==
    IF statement_idx \in DOMAIN function_names
    THEN Some(function_names[statement_idx])
    ELSE None

\* Context::map_pc_to_code_location, called by stack_trace.rs:9: the first
\* location of the statement the pc lies in.
map_pc_to_code_location(pc) ==
    code_location_for_statement_idx(statement_idx_for_pc(pc))

\* file_path.starts_with(&ctx.root_path)
is_user_code(file) == file \in Files

presentation_hint(file) == IF is_user_code(file) THEN "Normal" ELSE "Subtle"

\* unknown_frame (call_stack.rs) and the None arm of stack_trace.rs
unknown_frame ==
    [id |-> 1, name |-> "Unknown", path |-> "-", line |-> 1, column |-> 1,
     presentation_hint |-> "Subtle"]

\* CallStack::build_stack_frame: lines and columns become 1-based
build_stack_frame(ids, code_location, function_name) ==
    [id |-> MIN_OBJECT_REFERENCE + 2 * Len(ids), name |-> function_name,
     path |-> code_location.file, line |-> code_location.line + 1,
     column |-> code_location.col + 1,
     presentation_hint |-> presentation_hint(code_location.file)]

\* Iterator::zip: as long as the shorter of the two
zip(a, b) ==
    [k \in 1..(IF Len(a) <= Len(b) THEN Len(a) ELSE Len(b)) |-> <<a[k], b[k]>>]

\* A statement without code locations renders no frame.
build_stack_frames_without_sentinel(ids, statement_idx) ==
    LET code_locations_opt == code_locations_for_statement_idx(statement_idx) IN
    IF ~code_locations_opt.some THEN <<>>
    ELSE LET names_opt == function_names_for_statement_idx(statement_idx)
             names == IF names_opt.some THEN names_opt.value ELSE <<"test">>
             pairs == zip(code_locations_opt.value, names)
         IN [k \in DOMAIN pairs |-> build_stack_frame(ids, pairs[k][1], pairs[k][2])]

\* CallStack::build_stack_frames
build_stack_frames(ids, statement_idx) ==
    LET code_locations_opt == code_locations_for_statement_idx(statement_idx) IN
    IF ~code_locations_opt.some THEN <<unknown_frame>>
    ELSE LET names_opt == function_names_for_statement_idx(statement_idx)
             names == IF names_opt.some THEN names_opt.value ELSE <<"test">>
             pairs == zip(code_locations_opt.value, names)
         IN [k \in DOMAIN pairs |-> build_stack_frame(ids, pairs[k][1], pairs[k][2])]

\* Iterator::rev
rev(s) == [k \in DOMAIN s |-> s[Len(s) + 1 - k]]

RECURSIVE flat_map_frames(_, _)
\* .flat_map(|statement_idx| self.build_stack_frames(ctx, statement_idx))
flat_map_frames(ids, statements) ==
    IF statements = <<>> THEN <<>>
    ELSE build_stack_frames(ids, Head(statements))
            \o flat_map_frames(ids, Tail(statements))

\* A rendering in storage order: the outermost call site first.
\* CallStack::get_scopes_for_frame: the one scope of a frame.
get_scopes_for_frame(frame_id) ==
    <<[name |-> "Locals", variables_reference |-> frame_id + 1]>>

\* CallStack::get_variables: the variables of the frame the reference stands
\* for; indexing call_ids outside its length panics.
get_variables(ids, variables_reference) ==
    LET index == (variables_reference \div 2) - 1 IN
    IF index = Len(ids) THEN [outcome |-> "ok", variables |-> <<>>]
    ELSE IF index \in 0..(Len(ids) - 1) THEN [outcome |-> "ok", variables |-> <<>>]
    ELSE [outcome |-> "panic", variables |-> <<>>]

get_frames_outermost_first(ids, statement_idx) ==
    flat_map_frames(ids, Append(ids, statement_idx))

\* CallStack::get_frames
get_frames(ids, statement_idx) ==
    flat_map_frames(ids, rev(Append(ids, statement_idx)))

\* handler::stack_trace::build_stack_frame (stack_trace.rs)
stack_trace_build_stack_frame(pc) ==
    LET code_location == map_pc_to_code_location(pc) IN
    IF code_location.some
    THEN [id |-> 1, name |-> "test", path |-> code_location.value.file,
          line |-> code_location.value.line + 1,
          column |-> code_location.value.col + 1,
          presentation_hint |-> presentation_hint(code_location.value.file)]
    ELSE [id |-> 1, name |-> "Unknown", path |-> "-", line |-> 1, column |-> 1,
          presentation_hint |-> "Subtle"]

----------------------------------------------------------------------------
\* State (src/debugger/state.rs): the breakpoint table.

BreakpointsOf(table, source) ==
    IF source \in DOMAIN table THEN table[source] ELSE {}

\* self.breakpoints.entry(source).or_default().extend(indexes)
extend_entry(table, source, indexes) ==
    [f \in DOMAIN table \cup {source} |->
        IF f = source THEN BreakpointsOf(table, source) \cup indexes ELSE table[f]]

\* State::verify_and_set_breakpoint: the table it leaves and the flag it returns
verify_and_set_breakpoint(table, source, line) ==
    LET indexes == statement_idxs_for_breakpoint(source, line) IN
    IF indexes.some
    THEN [breakpoints |-> extend_entry(table, source, indexes.value), verified |-> TRUE]
    ELSE [breakpoints |-> table, verified |-> FALSE]

\* A clear that empties the whole table.
clear_all_breakpoints(table, source) == <<>>

\* State::clear_breakpoints
clear_breakpoints(table, source) ==
    [f \in DOMAIN table \ {source} |-> table[f]]

----------------------------------------------------------------------------
\* The debug information of the session specification: four statements, the
\* second compiled to no instruction; statements 0 and 2 come from line 0 of
\* a.cairo (DAP line 1), at columns 4 and 2.

SampleProgram == <<"other", "call", "other", "return">>

SampleOffsets == <<0, 1, 1, 2>>

Location(file, line, col) == [file |-> file, line |-> line, col |-> col]

SampleLocations ==
    [idx \in {0, 2} |->
        IF idx = 0 THEN <<Location("a.cairo", 0, 4)>>
        ELSE <<Location("a.cairo", 0, 2)>>]

SampleFilesData == [k \in {<<"a.cairo", 0>>} |-> 1]

SampleFileMap == [k \in {<<"a.cairo", 0>>} |-> [col |-> 2, pc |-> 1]]

\* No lookup made, no frames rendered, no depth recorded yet.
NoLookup == [kind |-> "-", file |-> "-", line |-> 0, pc |-> 0, result |-> None]

NoFrames == [kind |-> "-", current |-> 0, value |-> <<>>]

NoQueries == lookup = NoLookup /\ depths = <<>> /\ frames = NoFrames

\* The I/O threads at start: nothing decoded, nothing written.
IdleIo == decoded = <<>> /\ written = <<>> /\ nrecv = 0 /\ writerAlive = TRUE

----------------------------------------------------------------------------
\* Connection (src/connection.rs): the inbound queue as the session sees it.

\* A blocking receive that keeps waiting when the sender is gone.
next_request_never_closed == IF inbound # <<>> THEN "some" ELSE "blocked"

\* Connection::next_request: inbound_rx.recv() returns the front request, blocks
\* on an empty queue while the reader thread lives, and fails once it is gone.
next_request ==
    IF inbound # <<>> THEN "some" ELSE IF readerAlive THEN "blocked" ELSE "closed"

\* Connection::try_next_request as debugger.rs:46 calls it (Result<Option<_>>):
\* a non-blocking receive; a closed queue is an error.
try_next_request ==
    IF inbound # <<>> THEN "some" ELSE IF readerAlive THEN "none" ELSE "closed"

\* Connection::try_next_request as core.rs:37 and core.rs:70 call it (Option<_>).
core_try_next_request == IF inbound # <<>> THEN "some" ELSE "none"

\* outbound_tx.send(..) for each message of out: once the writer thread has
\* dropped outbound_rx every send fails and nothing is enqueued.
Sent(out) == IF writerAlive THEN out ELSE <<>>

\* A send that is taken to succeed although the receiver is gone.
send_never_fails(r) == FALSE

\* The handler's first send failed: `?` returns the error from the handler.
SendFailed(r) == ~writerAlive /\ r.out # <<>>

\* How a handler that returned r leaves the session: its own outcome, or the
\* error of a failed send.
Outcome(r) == IF r.outcome = "ok" /\ SendFailed(r) THEN "err" ELSE r.outcome

\* A receive that takes the newest message of the channel.
outbound_recv_newest(queue, n) == queue[Len(queue)]

\* outbound_rx.recv(): the oldest message not yet received, n received so far.
outbound_recv(queue, n) == queue[n + 1]

\* A send that puts the request at the front of the queue.
inbound_send_front(queue, request) == <<request>> \o queue

\* inbound_tx.send(request): the channel is first in, first out.
inbound_send(queue, request) == Append(queue, request)

\* The reader thread decodes one request and sends it on inbound_tx, while the
\* client has sent fewer than limit requests.
ReaderSend(limit) ==
    /\ readerAlive
    /\ phase # "dropped"
    /\ nsent < limit
    /\ \E request \in Requests(nsent + 1) :
          /\ decoded' = Append(decoded, request)
          /\ inbound' = inbound_send(inbound, request)
    /\ nsent' = nsent + 1
    /\ UNCHANGED <<impl, phase, result, outbound, taken, readerAlive,
                   configuration_done, execution_stopped, breakpoints, vm_pc>>
    /\ UNCHANGED <<callStackVars, contextVars, written, nrecv, writerAlive>>

ClientSend == ReaderSend(MaxRequests)

\* The reader thread ends: poll_request returned Ok(None) or an error.
ReaderStop ==
    /\ readerAlive
    /\ phase # "dropped"
    /\ readerAlive' = FALSE
    /\ UNCHANGED <<impl, phase, result, inbound, outbound, taken, nsent,
                   configuration_done, execution_stopped, breakpoints, vm_pc>>
    /\ UNCHANGED <<callStackVars, contextVars, ioVars>>

----------------------------------------------------------------------------
\* The session of src/debugger.rs.

\* State::is_configuration_done, on the state a request leaves
is_configuration_done(r) == r.configuration_done

\* State::is_execution_stopped, on the state a request leaves
is_execution_stopped(r) == r.execution_stopped

\* CairoDebugger::process_request: the handler's messages, flags and error.
process_request(request) == handle_request(request)

\* The request at the front of the queue is taken and processed in `where`;
\* the session goes on at `next` unless the handler failed.
Processed(r, where, next) ==
    /\ inbound' = Tail(inbound)
    /\ taken' = Append(taken, [request |-> Head(inbound), phase |-> where])
    /\ outbound' = outbound \o Sent(r.out)
    /\ configuration_done' = r.configuration_done
    /\ execution_stopped' = r.execution_stopped
    /\ phase' = IF Outcome(r) = "ok" THEN next ELSE "failed"
    /\ result' = IF Outcome(r) = "ok" THEN result ELSE Outcome(r)

\* The blocking receive failed: the error leaves the loop.
ConnectionClosed ==
    /\ phase' = "failed"
    /\ result' = "err"
    /\ UNCHANGED <<inbound, taken, outbound, configuration_done, execution_stopped>>

\* CairoDebugger::initialize: one turn of the loop.
initialize ==
    /\ impl = "debugger"
    /\ phase = "init"
    /\ \/ /\ next_request = "some"
          /\ LET r == process_request(Head(inbound)) IN
             Processed(r, "init", IF is_configuration_done(r) THEN "running" ELSE "init")
       \/ /\ next_request = "closed"
          /\ ConnectionClosed
    /\ UNCHANGED <<impl, nsent, readerAlive, breakpoints, vm_pc>>
    /\ UNCHANGED <<callStackVars, contextVars, ioVars>>

\* CairoDebugger::sync_with_vm: one turn of the while-let loop, or its end.
sync_with_vm ==
    /\ impl = "debugger"
    /\ phase = "sync"
    /\ \/ /\ try_next_request = "some"
          /\ LET r == process_request(Head(inbound)) IN
             Processed(r, "sync", IF is_execution_stopped(r) THEN "stopped" ELSE "sync")
       \/ /\ try_next_request = "none"
          /\ phase' = "step"
          /\ UNCHANGED <<result, inbound, taken, outbound, configuration_done,
                         execution_stopped>>
       \/ /\ try_next_request = "closed"
          /\ ConnectionClosed
    /\ UNCHANGED <<impl, nsent, readerAlive, breakpoints, vm_pc>>
    /\ UNCHANGED <<callStackVars, contextVars, ioVars>>

\* CairoDebugger::process_until_resume: one turn of the loop; when the flag is
\* cleared the session is back in the loop of sync_with_vm.
process_until_resume ==
    /\ impl = "debugger"
    /\ phase = "stopped"
    /\ \/ /\ next_request = "some"
          /\ LET r == process_request(Head(inbound)) IN
             Processed(r, "stopped", IF is_execution_stopped(r) THEN "stopped" ELSE "sync")
       \/ /\ next_request = "closed"
          /\ ConnectionClosed
    /\ UNCHANGED <<impl, nsent, readerAlive, breakpoints, vm_pc>>
    /\ UNCHANGED <<callStackVars, contextVars, ioVars>>

\* Drop for CairoDebugger (debugger.rs): the run is over (phase "running": the VM
\* has no further step) or has failed.
drop ==
    /\ impl = "debugger"
    /\ phase \in {"running", "failed"}
    /\ outbound' = outbound \o Sent(<<EventMessage("terminated"), EventMessage("exited")>>)
    /\ phase' = "dropped"
    /\ result' = IF phase = "running" THEN "ok" ELSE result
    /\ UNCHANGED <<impl, inbound, taken, nsent, readerAlive, configuration_done,
                   execution_stopped, breakpoints, vm_pc>>
    /\ UNCHANGED <<callStackVars, contextVars, ioVars>>

----------------------------------------------------------------------------
\* The VM (src/debugger/vm.rs): it calls the hook before each instruction and
\* executes the instruction when the hook returns Ok.

\* StepHooks::pre_step_instruction: the hook enters sync_with_vm (sync).
pre_step_instruction ==
    /\ phase = "running"
    /\ phase' = "sync"
    /\ UNCHANGED <<impl, result, inbound, outbound, taken, nsent, readerAlive,
                   configuration_done, execution_stopped, breakpoints, vm_pc>>
    /\ UNCHANGED <<callStackVars, contextVars, ioVars>>

\* The hook returned Ok: the instruction executes and leaves the VM at some pc.
step_instruction ==
    /\ phase = "step"
    /\ phase' = "running"
    /\ vm_pc' \in 0..MaxPc
    /\ UNCHANGED <<impl, result, inbound, outbound, taken, nsent, readerAlive,
                   configuration_done, execution_stopped, breakpoints>>
    /\ UNCHANGED <<callStackVars, contextVars, ioVars>>

----------------------------------------------------------------------------
\* The session of src/debugger/core.rs.

CoreProcessed(r, where, next) ==
    /\ inbound' = Tail(inbound)
    /\ taken' = Append(taken, [request |-> Head(inbound), phase |-> where])
    /\ outbound' = outbound \o Sent(r.out)
    /\ phase' = IF Outcome(r) = "ok" THEN next ELSE "failed"
    /\ result' = IF Outcome(r) = "ok" THEN result ELSE Outcome(r)
    /\ UNCHANGED <<configuration_done, execution_stopped>>

\* CairoDebugger::initialize (core.rs): one turn of the loop.
core_initialize ==
    /\ impl = "core"
    /\ phase = "init"
    /\ \/ /\ next_request = "some"
          /\ LET r == core_handle_request(Head(inbound)) IN
             CoreProcessed(r, "init", IF r.next = "FinishInit" THEN "running" ELSE "init")
       \/ /\ next_request = "closed"
          /\ ConnectionClosed
    /\ UNCHANGED <<impl, nsent, readerAlive, breakpoints, vm_pc>>
    /\ UNCHANGED <<callStackVars, contextVars, ioVars>>

\* CairoDebugger::sync (core.rs): at most one request.
core_sync ==
    /\ impl = "core"
    /\ phase = "sync"
    /\ \/ /\ core_try_next_request = "some"
          /\ LET r == core_handle_request(Head(inbound)) IN
             CoreProcessed(r, "sync", IF r.next = "Stop" THEN "stopped" ELSE "step")
       \/ /\ core_try_next_request = "none"
          /\ phase' = "step"
          /\ UNCHANGED <<result, inbound, taken, outbound, configuration_done,
                         execution_stopped>>
    /\ UNCHANGED <<impl, nsent, readerAlive, breakpoints, vm_pc>>
    /\ UNCHANGED <<callStackVars, contextVars, ioVars>>

\* CairoDebugger::process_until_resume (core.rs): one turn of the loop.
core_process_until_resume ==
    /\ impl = "core"
    /\ phase = "stopped"
    /\ \/ /\ next_request = "some"
          /\ LET r == core_handle_request(Head(inbound)) IN
             IF r.outcome = "ok" /\ r.next = "FinishInit"
             THEN \* bail!("Unexpected request received during execution")
                  CoreProcessed([r EXCEPT !.outcome = "err"], "stopped", "failed")
             ELSE CoreProcessed(r, "stopped",
                                IF r.next = "Resume" THEN "step" ELSE "stopped")
       \/ /\ next_request = "closed"
          /\ ConnectionClosed
    /\ UNCHANGED <<impl, nsent, readerAlive, breakpoints, vm_pc>>
    /\ UNCHANGED <<callStackVars, contextVars, ioVars>>

\* Drop for CairoDebugger (core.rs): the two events, then one non-blocking
\* receive that answers a Disconnect.
core_drop ==
    /\ impl = "core"
    /\ phase \in {"running", "failed"}
    /\ LET events == Sent(<<EventMessage("exited"), EventMessage("terminated")>>) IN
       IF core_try_next_request = "some"
       THEN /\ inbound' = Tail(inbound)
            /\ taken' = Append(taken, [request |-> Head(inbound), phase |-> "drop"])
            /\ outbound' =
                IF Head(inbound).command = "Disconnect"
                THEN outbound \o events
                        \o Sent(<<SuccessResponse(Head(inbound), Body("Disconnect"))>>)
                ELSE outbound \o events
       ELSE /\ outbound' = outbound \o events
            /\ UNCHANGED <<inbound, taken>>
    /\ phase' = "dropped"
    /\ result' = IF phase = "running" THEN "ok" ELSE result
    /\ UNCHANGED <<impl, nsent, readerAlive, configuration_done,
                   execution_stopped, breakpoints, vm_pc>>
    /\ UNCHANGED <<callStackVars, contextVars, ioVars>>

----------------------------------------------------------------------------
\* The session specification.

Init ==
    /\ impl \in {"debugger", "core"}
    /\ phase = "init"
    /\ result = "none"
    /\ inbound = <<>>
    /\ outbound = <<>>
    /\ taken = <<>>
    /\ nsent = 0
    /\ readerAlive = TRUE
    /\ configuration_done = FALSE
    /\ execution_stopped = FALSE
    /\ breakpoints = <<>>
    /\ current_statement_idx = 0
    /\ call_ids = <<>>
    /\ action_on_new_statement = NoAction
    /\ vm_pc = 0
    /\ program = SampleProgram
    /\ statement_to_pc = SampleOffsets
    /\ code_locations = SampleLocations
    /\ files_data = SampleFilesData
    /\ trace = <<>>
    /\ min_col_map = SampleFileMap
    /\ function_names = <<>>
    /\ NoQueries
    /\ IdleIo

Next ==
    \/ ClientSend
    \/ ReaderStop
    \/ initialize
    \/ pre_step_instruction
    \/ sync_with_vm
    \/ process_until_resume
    \/ step_instruction
    \/ drop
    \/ core_initialize
    \/ core_sync
    \/ core_process_until_resume
    \/ core_drop

Spec == Init /\ [][Next]_vars

----------------------------------------------------------------------------
\* The session whose client has sent all its requests before the session first
\* looks at the inbound queue, and sends nothing afterwards.

\* The queues the reader thread can have filled: up to MaxRequests requests,
\* numbered in the order sent.
QueuedRequests ==
    UNION {{q \in [1..k -> UNION {Requests(seq) : seq \in 1..k}] :
                \A i \in 1..k : q[i].seq = i} : k \in 0..MaxRequests}

QueuedInit ==
    /\ impl \in {"debugger", "core"}
    /\ phase = "init"
    /\ result = "none"
    /\ inbound \in QueuedRequests
    /\ outbound = <<>>
    /\ taken = <<>>
    /\ nsent = Len(inbound)
    /\ readerAlive = TRUE
    /\ configuration_done = FALSE
    /\ execution_stopped = FALSE
    /\ breakpoints = <<>>
    /\ current_statement_idx = 0
    /\ call_ids = <<>>
    /\ action_on_new_statement = NoAction
    /\ vm_pc = 0
    /\ program = SampleProgram
    /\ statement_to_pc = SampleOffsets
    /\ code_locations = SampleLocations
    /\ files_data = SampleFilesData
    /\ trace = <<>>
    /\ min_col_map = SampleFileMap
    /\ function_names = <<>>
    /\ NoQueries
    /\ decoded = inbound
    /\ written = <<>>
    /\ nrecv = 0
    /\ writerAlive = TRUE

NextQueued ==
    \/ ReaderStop
    \/ initialize
    \/ pre_step_instruction
    \/ sync_with_vm
    \/ process_until_resume
    \/ step_instruction
    \/ drop
    \/ core_initialize
    \/ core_sync
    \/ core_process_until_resume
    \/ core_drop

SpecQueued == QueuedInit /\ [][NextQueued]_vars

----------------------------------------------------------------------------
\* The writer thread (connection.rs:106-123) and the session with it.

\* The reader thread in the specification with the writer thread.
io_client_send == ReaderSend(MaxIoRequests)

\* One turn of the writer's loop: the message received is written to the socket.
writer_write ==
    /\ writerAlive
    /\ nrecv < Len(outbound)
    /\ written' = Append(written, outbound_recv(outbound, nrecv))
    /\ nrecv' = nrecv + 1
    /\ UNCHANGED <<sessionVars, callStackVars, contextVars, decoded, writerAlive>>

\* The write fails: expect(..) panics, the thread ends and outbound_rx is dropped.
writer_panic ==
    /\ writerAlive
    /\ nrecv < Len(outbound)
    /\ nrecv' = nrecv + 1
    /\ writerAlive' = FALSE
    /\ UNCHANGED <<sessionVars, callStackVars, contextVars, decoded, written>>

NextIo ==
    \/ io_client_send
    \/ ReaderStop
    \/ initialize
    \/ pre_step_instruction
    \/ sync_with_vm
    \/ process_until_resume
    \/ step_instruction
    \/ drop
    \/ core_initialize
    \/ core_sync
    \/ core_process_until_resume
    \/ core_drop
    \/ writer_write
    \/ writer_panic

SpecIo == Init /\ [][NextIo]_vars

----------------------------------------------------------------------------
\* The call-stack specification: CallStack::update fed any statement of any
\* program of NumStatements statements.

StatementKinds == {"call", "return", "other"}

Statements == 0..(NumStatements - 1)

CallStackInit ==
    /\ impl = "debugger"
    /\ phase = "init"
    /\ result = "none"
    /\ inbound = <<>>
    /\ outbound = <<>>
    /\ taken = <<>>
    /\ nsent = 0
    /\ readerAlive = TRUE
    /\ configuration_done = FALSE
    /\ execution_stopped = FALSE
    /\ breakpoints = <<>>
    /\ current_statement_idx = 0
    /\ call_ids = <<>>
    /\ action_on_new_statement = NoAction
    /\ vm_pc = 0
    /\ program \in [1..NumStatements -> StatementKinds]
    /\ statement_to_pc = [i \in 1..NumStatements |-> i - 1]
    /\ code_locations = <<>>
    /\ files_data = <<>>
    /\ trace = <<>>
    /\ min_col_map = <<>>
    /\ function_names = <<>>
    /\ NoQueries
    /\ IdleIo

\* call_stack.update(statement_idx, ctx)
call_stack_update ==
    /\ Len(trace) < MaxTrace
    /\ \E statement_idx \in Statements :
          LET r == update(call_ids, action_on_new_statement, statement_idx) IN
          /\ call_ids' = r.call_ids
          /\ action_on_new_statement' = r.action_on_new_statement
          /\ trace' = Append(trace, statement_idx)
          /\ depths' = Append(depths, depth(r.call_ids))
    /\ UNCHANGED <<sessionVars, contextVars, ioVars, current_statement_idx, frames>>

\* State::update_state(vm, ctx): the statement of the VM's pc becomes the
\* current statement and is fed to CallStack::update.
update_state ==
    /\ Len(trace) < MaxTrace
    /\ \E pc \in 0..MaxPc :
          LET statement_idx == statement_idx_for_pc(pc)
              r == update(call_ids, action_on_new_statement, statement_idx)
          IN /\ vm_pc' = pc
             /\ current_statement_idx' = statement_idx
             /\ call_ids' = r.call_ids
             /\ action_on_new_statement' = r.action_on_new_statement
             /\ trace' = Append(trace, statement_idx)
             /\ depths' = Append(depths, depth(r.call_ids))
    /\ UNCHANGED <<impl, phase, result, inbound, outbound, taken, nsent, readerAlive,
                   configuration_done, execution_stopped, breakpoints>>
    /\ UNCHANGED <<contextVars, ioVars, frames>>

CallStackNext ==
    \/ call_stack_update
    \/ update_state

SpecCallStack == CallStackInit /\ [][CallStackNext]_vars

----------------------------------------------------------------------------
\* The advance specification: CallStack::update fed the statements 3 (a
\* function call), 7 (a return) and 10 (neither) of one program, in any order.

AdvanceSequence == <<3, 3, 7, 7, 10>>

AdvanceStatements == {AdvanceSequence[k] : k \in DOMAIN AdvanceSequence}

AdvanceProgram ==
    [i \in 1..11 |-> IF i - 1 = 3 THEN "call" ELSE IF i - 1 = 7 THEN "return" ELSE "other"]

AdvanceInit ==
    /\ impl = "debugger"
    /\ phase = "init"
    /\ result = "none"
    /\ inbound = <<>>
    /\ outbound = <<>>
    /\ taken = <<>>
    /\ nsent = 0
    /\ readerAlive = TRUE
    /\ configuration_done = FALSE
    /\ execution_stopped = FALSE
    /\ breakpoints = <<>>
    /\ current_statement_idx = 0
    /\ call_ids = <<>>
    /\ action_on_new_statement = NoAction
    /\ vm_pc = 0
    /\ program = AdvanceProgram
    /\ statement_to_pc = [i \in DOMAIN AdvanceProgram |-> i - 1]
    /\ code_locations = <<>>
    /\ files_data = <<>>
    /\ trace = <<>>
    /\ min_col_map = <<>>
    /\ function_names = <<>>
    /\ NoQueries
    /\ IdleIo

\* call_stack.update(statement_idx, ctx), then call_stack.depth()
advance ==
    /\ Len(trace) < Len(AdvanceSequence)
    /\ \E statement_idx \in AdvanceStatements :
          LET r == update(call_ids, action_on_new_statement, statement_idx) IN
          /\ call_ids' = r.call_ids
          /\ action_on_new_statement' = r.action_on_new_statement
          /\ trace' = Append(trace, statement_idx)
          /\ depths' = Append(depths, depth(r.call_ids))
    /\ UNCHANGED <<sessionVars, contextVars, ioVars, current_statement_idx, frames>>

AdvanceNext == advance

SpecAdvance == AdvanceInit /\ [][AdvanceNext]_vars

----------------------------------------------------------------------------
\* The stack-frame specification: a call stack of any stored call sites is
\* rendered, with any statement annotated or not; statement i starts at pc i
\* and its locations lie on line i.

LibraryFile == "core/lib.cairo"

FrameLocationLists(idx) ==
    {<<Location("a.cairo", idx, 0)>>,
     <<Location("a.cairo", idx, 0), Location(LibraryFile, idx, 1)>>}

FrameAnnotationMaps ==
    UNION {{f \in [S -> UNION {FrameLocationLists(idx) : idx \in Statements}] :
                \A idx \in S : f[idx] \in FrameLocationLists(idx)} :
           S \in SUBSET Statements}

\* No statement has function names, or every statement has two.
FunctionNameMaps == {<<>>} \cup [Statements -> {<<"f", "g">>}]

FramesInit ==
    /\ impl = "debugger"
    /\ phase = "running"
    /\ result = "none"
    /\ inbound = <<>>
    /\ outbound = <<>>
    /\ taken = <<>>
    /\ nsent = 0
    /\ readerAlive = TRUE
    /\ configuration_done = TRUE
    /\ execution_stopped = TRUE
    /\ breakpoints = <<>>
    /\ current_statement_idx = 0
    /\ call_ids \in SeqsUpTo(Statements, MaxFrames)
    /\ action_on_new_statement = NoAction
    /\ vm_pc = 0
    /\ program = [i \in 1..NumStatements |-> "other"]
    /\ statement_to_pc = [i \in 1..NumStatements |-> i - 1]
    /\ code_locations \in FrameAnnotationMaps
    /\ files_data = <<>>
    /\ trace = <<>>
    /\ min_col_map = <<>>
    /\ function_names \in FunctionNameMaps
    /\ NoQueries
    /\ IdleIo

\* call_stack.get_frames(statement_idx, ctx)
render_get_frames ==
    /\ \E statement_idx \in Statements :
          frames' = [kind |-> "get_frames", current |-> statement_idx,
                     value |-> get_frames(call_ids, statement_idx)]
    /\ UNCHANGED <<sessionVars, contextVars, ioVars, current_statement_idx, call_ids,
                   action_on_new_statement, trace, depths>>

\* stack_trace::build_stack_frame(ctx, pc)
render_build_stack_frame ==
    /\ \E pc \in 0..(NumStatements - 1) :
          frames' = [kind |-> "build_stack_frame", current |-> pc,
                     value |-> <<stack_trace_build_stack_frame(pc)>>]
    /\ UNCHANGED <<sessionVars, contextVars, ioVars, current_statement_idx, call_ids,
                   action_on_new_statement, trace, depths>>

FramesNext ==
    \/ render_get_frames
    \/ render_build_stack_frame

SpecFrames == FramesInit /\ [][FramesNext]_vars

----------------------------------------------------------------------------
\* The debug-information specification: Context::new builds the breakpoint
\* index from any offset table and any code-location annotations, visiting the
\* annotation map in any order; then the lookups are made.

\* The sorted (non-decreasing) offset tables.
OffsetTables ==
    {t \in [1..NumStatements -> 0..MaxPc] :
        \A i \in 1..(NumStatements - 1) : t[i] <= t[i + 1]}

UnknownFile == "b.cairo"

\* The code locations a statement is annotated with.
LocationLists ==
    {<<Location("a.cairo", line, col)>> : line \in {0, 1}, col \in {0, 1}}
        \cup {<<Location("a.cairo", 0, 1), Location("a.cairo", 0, 0)>>,
              <<Location("a.cairo", 0, 0), Location("a.cairo", 1, 0)>>}

\* statements_code_locations: any subset of the statements is annotated.
AnnotationMaps == UNION {[S -> LocationLists] : S \in SUBSET Statements}

\* The orders in which a HashMap with the keys S can be iterated.
Orders(S) ==
    {order \in [1..Cardinality(S) -> S] :
        \A i, j \in 1..Cardinality(S) : order[i] = order[j] => i = j}

QueryKeys == {<<file, line>> : file \in Files \cup {UnknownFile}, line \in {0, 1, 2}}

ContextInit ==
    /\ impl = "debugger"
    /\ phase = "new"
    /\ result = "none"
    /\ inbound = <<>>
    /\ outbound = <<>>
    /\ taken = <<>>
    /\ nsent = 0
    /\ readerAlive = TRUE
    /\ configuration_done = FALSE
    /\ execution_stopped = FALSE
    /\ breakpoints = <<>>
    /\ current_statement_idx = 0
    /\ call_ids = <<>>
    /\ action_on_new_statement = NoAction
    /\ vm_pc = 0
    /\ program = [i \in 1..NumStatements |-> "other"]
    /\ statement_to_pc \in OffsetTables
    /\ code_locations \in AnnotationMaps
    /\ files_data = <<>>
    /\ trace = <<>>
    /\ min_col_map = <<>>
    /\ function_names = <<>>
    /\ NoQueries
    /\ IdleIo

\* Context::new (context.rs:65-66): files_data is built once.
context_new ==
    /\ phase = "new"
    /\ \E order \in Orders(DOMAIN code_locations) :
          /\ min_col_map' = fold_statements(<<>>, order)
          /\ files_data' = build_file_locations_map(order)
    /\ phase' = "ready"
    /\ UNCHANGED <<impl, result, inbound, outbound, taken, nsent, readerAlive,
                   configuration_done, execution_stopped, breakpoints, vm_pc>>
    /\ UNCHANGED <<callStackVars, ioVars, program, statement_to_pc, code_locations,
                   lookup, function_names>>

\* ctx.statement_idx_for_pc(pc)
lookup_statement_idx_for_pc ==
    /\ phase = "ready"
    /\ \E pc \in 0..MaxPc :
          lookup' = [kind |-> "pc", file |-> "-", line |-> 0, pc |-> pc,
                     result |-> Some(statement_idx_for_pc(pc))]
    /\ UNCHANGED <<sessionVars, callStackVars, ioVars, program, statement_to_pc,
                   code_locations, files_data, min_col_map, function_names>>

\* ctx.get_pc_for_line(source, line)
lookup_pc_for_line ==
    /\ phase = "ready"
    /\ \E key \in QueryKeys :
          lookup' = [kind |-> "line", file |-> key[1], line |-> key[2], pc |-> 0,
                     result |-> get_pc_for_line(key[1], key[2])]
    /\ UNCHANGED <<sessionVars, callStackVars, ioVars, program, statement_to_pc,
                   code_locations, files_data, min_col_map, function_names>>

\* The index expression of statement_idx_to_statement is in range.
statement_in_program(statement_idx) == (statement_idx + 1) \in DOMAIN program

\* ctx.is_function_call_statement / ctx.is_return_statement on the statement of
\* a pc: 1 for a function call, 2 for a return, 0 for neither; an index outside
\* program.statements panics.
lookup_statement_kind ==
    /\ phase = "ready"
    /\ \E pc \in 0..MaxPc :
          LET statement_idx == statement_idx_for_pc(pc) IN
          lookup' =
            IF statement_in_program(statement_idx)
            THEN [kind |-> "statement", file |-> "-", line |-> 0, pc |-> pc,
                  result |-> Some(IF is_function_call_statement(statement_idx) THEN 1
                                  ELSE IF is_return_statement(statement_idx) THEN 2
                                  ELSE 0)]
            ELSE [kind |-> "panic", file |-> "-", line |-> 0, pc |-> pc,
                  result |-> None]
    /\ UNCHANGED <<sessionVars, callStackVars, ioVars, program, statement_to_pc,
                   code_locations, files_data, min_col_map, function_names>>

ContextNext ==
    \/ context_new
    \/ lookup_statement_idx_for_pc
    \/ lookup_pc_for_line
    \/ lookup_statement_kind

SpecContext == ContextInit /\ [][ContextNext]_vars

----------------------------------------------------------------------------
\* Teardown of the Connection (connection.rs:14-18, 85-90) after Drop for
\* CairoDebugger: the fields are dropped in declaration order, inbound_rx and
\* outbound_tx first, then IoThreads, whose Drop joins the reader and then the
\* writer.

\* The phases after Drop for CairoDebugger has run.
TornDown == {"dropped", "reader_joined", "joined"}

\* The reader thread at teardown: poll_request returns Ok(None) or an error
\* (the client closed the socket) and the loop ends.
reader_stop_at_teardown ==
    /\ phase = "dropped"
    /\ readerAlive
    /\ readerAlive' = FALSE
    /\ UNCHANGED <<impl, phase, result, inbound, outbound, taken, nsent,
                   configuration_done, execution_stopped, breakpoints, vm_pc>>
    /\ UNCHANGED <<callStackVars, contextVars, ioVars>>

\* The reader thread at teardown: the client sends one more request, and
\* inbound_tx.send fails because inbound_rx is gone: the loop breaks.
reader_send_fails ==
    /\ phase = "dropped"
    /\ readerAlive
    /\ nsent < MaxIoRequests
    /\ \E request \in Requests(nsent + 1) : decoded' = Append(decoded, request)
    /\ nsent' = nsent + 1
    /\ readerAlive' = FALSE
    /\ UNCHANGED <<impl, phase, result, inbound, outbound, taken,
                   configuration_done, execution_stopped, breakpoints, vm_pc>>
    /\ UNCHANGED <<callStackVars, contextVars, written, nrecv, writerAlive>>

\* A writer thread that ends as soon as outbound_tx is gone, whatever is queued.
writer_exit_without_draining ==
    /\ phase \in {"dropped", "reader_joined"}
    /\ writerAlive
    /\ writerAlive' = FALSE
    /\ UNCHANGED <<sessionVars, callStackVars, contextVars, decoded, written, nrecv>>

\* The writer thread at teardown: outbound_tx is gone and the channel is empty,
\* so outbound_rx.recv() fails and the loop ends.
writer_exit ==
    /\ phase \in {"dropped", "reader_joined"}
    /\ writerAlive
    /\ nrecv = Len(outbound)
    /\ writerAlive' = FALSE
    /\ UNCHANGED <<sessionVars, callStackVars, contextVars, decoded, written, nrecv>>

\* Drop for IoThreads, first line: join of the reader thread returns once that
\* thread has ended.
join_reader ==
    /\ phase = "dropped"
    /\ ~readerAlive
    /\ phase' = "reader_joined"
    /\ UNCHANGED <<impl, result, inbound, outbound, taken, nsent, readerAlive,
                   configuration_done, execution_stopped, breakpoints, vm_pc>>
    /\ UNCHANGED <<callStackVars, contextVars, ioVars>>

\* Drop for IoThreads, second line: join of the writer thread.
join_writer ==
    /\ phase = "reader_joined"
    /\ ~writerAlive
    /\ phase' = "joined"
    /\ UNCHANGED <<impl, result, inbound, outbound, taken, nsent, readerAlive,
                   configuration_done, execution_stopped, breakpoints, vm_pc>>
    /\ UNCHANGED <<callStackVars, contextVars, ioVars>>

\* The session with a scheduler that lets the session thread and the VM run.
NextLive ==
    \/ io_client_send
    \/ ReaderStop
    \/ initialize
    \/ pre_step_instruction
    \/ sync_with_vm
    \/ process_until_resume
    \/ step_instruction
    \/ drop
    \/ core_initialize
    \/ core_sync
    \/ core_process_until_resume
    \/ core_drop

\* The session thread and the VM keep running while they can take a step;
\* nothing is assumed of the client (what the reader thread receives, and when
\* the socket closes).
SessionFairness ==
    /\ WF_vars(initialize)
    /\ WF_vars(sync_with_vm)
    /\ WF_vars(process_until_resume)
    /\ WF_vars(core_initialize)
    /\ WF_vars(core_sync)
    /\ WF_vars(core_process_until_resume)
    /\ WF_vars(pre_step_instruction)
    /\ WF_vars(step_instruction)
    /\ WF_vars(drop)
    /\ WF_vars(core_drop)

SpecLive == Init /\ [][NextLive]_vars /\ SessionFairness

\* The session with both worker threads and the teardown of the Connection.
NextTeardown ==
    \/ io_client_send
    \/ ReaderStop
    \/ initialize
    \/ pre_step_instruction
    \/ sync_with_vm
    \/ process_until_resume
    \/ step_instruction
    \/ drop
    \/ core_initialize
    \/ core_sync
    \/ core_process_until_resume
    \/ core_drop
    \/ writer_write
    \/ writer_panic
    \/ reader_stop_at_teardown
    \/ reader_send_fails
    \/ writer_exit
    \/ join_reader
    \/ join_writer

\* The writer thread and the thread that drops the Connection keep running
\* while they can take a step.
TeardownFairness ==
    /\ WF_vars(writer_write \/ writer_panic)
    /\ WF_vars(writer_exit)
    /\ WF_vars(join_reader)
    /\ WF_vars(join_writer)

SpecTeardown ==
    Init /\ [][NextTeardown]_vars /\ SessionFairness /\ TeardownFairness

----------------------------------------------------------------------------
\* The call stack between stops: frames are rendered, the stack goes on
\* changing, and the client asks for the variables of a frame it was given.

\* Statement 0 is a function call, statement 1 a return.
VariablesProgram ==
    [i \in 1..NumStatements |->
        IF i = 1 THEN "call" ELSE IF i = 2 THEN "return" ELSE "other"]

\* No statement is annotated, or each has one location.
VariablesAnnotationMaps ==
    {<<>>, [idx \in Statements |-> <<Location("a.cairo", idx, 0)>>]}

VariablesInit ==
    /\ impl = "debugger"
    /\ phase = "running"
    /\ result = "none"
    /\ inbound = <<>>
    /\ outbound = <<>>
    /\ taken = <<>>
    /\ nsent = 0
    /\ readerAlive = TRUE
    /\ configuration_done = TRUE
    /\ execution_stopped = TRUE
    /\ breakpoints = <<>>
    /\ current_statement_idx = 0
    /\ call_ids = <<>>
    /\ action_on_new_statement = NoAction
    /\ vm_pc = 0
    /\ program = VariablesProgram
    /\ statement_to_pc = [i \in 1..NumStatements |-> i - 1]
    /\ code_locations \in VariablesAnnotationMaps
    /\ files_data = <<>>
    /\ trace = <<>>
    /\ min_col_map = <<>>
    /\ function_names = <<>>
    /\ NoQueries
    /\ IdleIo

\* call_stack.get_scopes_for_frame(frame_id) for a frame the client holds, then
\* call_stack.get_variables(variables_reference) for its scope.
variables_request ==
    /\ frames.kind = "get_frames"
    /\ \E n \in DOMAIN frames.value :
          LET scopes == get_scopes_for_frame(frames.value[n].id)
              reference == scopes[1].variables_reference
              r == get_variables(call_ids, reference)
          IN lookup' = [kind |-> IF r.outcome = "ok" THEN "variables" ELSE "panic",
                        file |-> "-", line |-> 0, pc |-> reference,
                        result |-> IF r.outcome = "ok" THEN Some(Len(r.variables))
                                   ELSE None]
    /\ UNCHANGED <<sessionVars, callStackVars, ioVars, program, statement_to_pc,
                   code_locations, files_data, min_col_map, function_names>>

VariablesNext ==
    \/ call_stack_update
    \/ render_get_frames
    \/ variables_request

SpecVariables == VariablesInit /\ [][VariablesNext]_vars

----------------------------------------------------------------------------
\* The breakpoint table of State under its two updates, with two source files.

BreakpointFiles == {"a.cairo", "b.cairo"}

\* Lines as Context counts them (0-based); line 1 of b.cairo has no statement.
BreakpointLines == {0, 1}

BreakpointLocations ==
    [idx \in {0, 2, 3} |->
        IF idx = 0 THEN <<Location("a.cairo", 0, 0)>>
        ELSE IF idx = 2 THEN <<Location("a.cairo", 1, 0)>>
        ELSE <<Location("b.cairo", 0, 0)>>]

BreakpointsInit ==
    /\ impl = "debugger"
    /\ phase = "stopped"
    /\ result = "none"
    /\ inbound = <<>>
    /\ outbound = <<>>
    /\ taken = <<>>
    /\ nsent = 0
    /\ readerAlive = TRUE
    /\ configuration_done \in BOOLEAN
    /\ execution_stopped \in BOOLEAN
    /\ breakpoints = <<>>
    /\ current_statement_idx \in {0, 2}
    /\ call_ids \in {<<>>, <<1>>}
    /\ action_on_new_statement = NoAction
    /\ vm_pc = 0
    /\ program = SampleProgram
    /\ statement_to_pc = SampleOffsets
    /\ code_locations = BreakpointLocations
    /\ files_data = build_file_locations_map(<<0, 2, 3>>)
    /\ trace = <<>>
    /\ min_col_map = fold_statements(<<>>, <<0, 2, 3>>)
    /\ function_names = <<>>
    /\ NoQueries
    /\ IdleIo

\* state.verify_and_set_breakpoint(source, line, ctx)
state_verify_and_set_breakpoint ==
    /\ \E source \in BreakpointFiles, line \in BreakpointLines :
          LET r == verify_and_set_breakpoint(breakpoints, source, line) IN
          /\ breakpoints' = r.breakpoints
          /\ lookup' = [kind |-> "verify_and_set_breakpoint", file |-> source,
                        line |-> line, pc |-> 0,
                        result |-> IF r.verified THEN Some(1) ELSE None]
    /\ UNCHANGED <<impl, phase, result, inbound, outbound, taken, nsent, readerAlive,
                   configuration_done, execution_stopped, vm_pc>>
    /\ UNCHANGED <<callStackVars, ioVars, program, statement_to_pc, code_locations,
                   files_data, min_col_map, function_names>>

\* state.clear_breakpoints(source)
state_clear_breakpoints ==
    /\ \E source \in BreakpointFiles :
          /\ breakpoints' = clear_breakpoints(breakpoints, source)
          /\ lookup' = [kind |-> "clear_breakpoints", file |-> source, line |-> 0,
                        pc |-> 0, result |-> None]
    /\ UNCHANGED <<impl, phase, result, inbound, outbound, taken, nsent, readerAlive,
                   configuration_done, execution_stopped, vm_pc>>
    /\ UNCHANGED <<callStackVars, ioVars, program, statement_to_pc, code_locations,
                   files_data, min_col_map, function_names>>

BreakpointsNext ==
    \/ state_verify_and_set_breakpoint
    \/ state_clear_breakpoints

SpecBreakpoints == BreakpointsInit /\ [][BreakpointsNext]_vars

----------------------------------------------------------------------------
\* What the claims speak of.

TakenIdx == 1..Len(taken)

\* The request was handled by handle_request (not merely received at teardown).
Handled(i) == taken[i].phase # "drop"

ResponsesTo(seq) ==
    {k \in 1..Len(outbound) :
        IsResponse(outbound[k]) /\ outbound[k].request_seq = seq}

EventIdx(event) == {k \in 1..Len(outbound) : IsEvent(outbound[k], event)}

\* A Pause has been processed and no Continue after it.
PauseOutstanding ==
    \E i \in TakenIdx :
        /\ Handled(i)
        /\ taken[i].request.command = "Pause"
        /\ \A j \in (i + 1)..Len(taken) : taken[j].request.command # "Continue"

ConfigurationDoneProcessed ==
    \E i \in TakenIdx :
        /\ taken[i].request.command = "ConfigurationDone"
        /\ taken[i].phase = "init"

\* The statements the lines (1-based, as DAP sends them) stand for in the
\* breakpoint index (0-based lines).
Resolved(file, lines) ==
    UNION {LET r == statement_idxs_for_breakpoint(file, lines[k] - 1) IN
           IF r.some THEN r.value ELSE {} : k \in 1..Len(lines)}

IsSetBreakpoints(i, file) ==
    /\ Handled(i)
    /\ taken[i].request.command = "SetBreakpoints"
    /\ taken[i].request.file = file

----------------------------------------------------------------------------
\* C1: CallStack.update(s) applies the action deferred by the previous update
\* (the push of the previous statement if that was a call, a pop if it was a
\* return) to the stored frames, and leaves deferred the action of s itself:
\* Push(s) for a call, Pop for a return, none otherwise. The stored frames right
\* after update(s) do not depend on the kind of s.
C1_UpdateDefersEffect ==
    [][trace' # trace =>
        LET s == Last(trace') IN
        /\ call_ids' =
              IF trace = <<>> THEN call_ids
              ELSE LET p == Last(trace) IN
                   IF program[p + 1] = "call" THEN Append(call_ids, p)
                   ELSE IF program[p + 1] = "return" /\ call_ids # <<>>
                        THEN Front(call_ids)
                        ELSE call_ids
        /\ action_on_new_statement' =
              IF program[s + 1] = "call" THEN [kind |-> "Push", statement |-> s]
              ELSE IF program[s + 1] = "return" THEN [kind |-> "Pop", statement |-> 0]
              ELSE [kind |-> "None", statement |-> 0]]_vars

\* A call, then a return: the call's frame is stored, the return's pop pending.
C1_Witness ==
    /\ Len(trace) = 2
    /\ program[trace[1] + 1] = "call"
    /\ program[trace[2] + 1] = "return"
    /\ call_ids = <<trace[1]>>
    /\ action_on_new_statement.kind = "Pop"

\* C2: once a Pause has been processed (in whatever phase) the pre-step hook
\* does not return Ok, so no instruction executes, until a Continue has been
\* processed.
C2_NotSteppedWhileStopped == PauseOutstanding => phase # "step"

\* C3: the session leaves initialization for the VM's run (the hook is entered,
\* an instruction executes, the run ends normally) only after a
\* ConfigurationDone was processed by the initialization loop; every other end
\* of that loop is an error.
C3_RunsOnlyAfterConfigurationDone ==
    /\ phase \in {"running", "sync", "stopped", "step"} => ConfigurationDoneProcessed
    /\ vm_pc # 0 => ConfigurationDoneProcessed
    /\ result = "ok" => ConfigurationDoneProcessed
    /\ (phase \in {"failed", "dropped"} /\ ~ConfigurationDoneProcessed)
          => result \in {"err", "panic"}

\* The hook has returned Ok and an instruction executes, after ConfigurationDone
\* and another request before it.
C3_Witness ==
    /\ impl = "debugger"
    /\ phase = "step"
    /\ Len(taken) >= 2
    /\ taken[Len(taken)].request.command = "ConfigurationDone"

\* C4: every request taken from the inbound queue has exactly one Response.
C4_ExactlyOneResponse ==
    \A i \in TakenIdx : Cardinality(ResponsesTo(taken[i].request.seq)) = 1

C6_StopsBeforeInstruction ==
    phase = "step" =>
        /\ ~execution_stopped
        /\ current_statement_idx \notin UNION {breakpoints[f] : f \in DOMAIN breakpoints}

\* C7: inside the hook (requests being drained, stopped, or about to execute)
\* the current statement is the one of the live pc and has been fed to
\* CallStack.update.
C7_PositionUpdatedAtHook ==
    phase \in {"sync", "stopped", "step"} =>
        /\ current_statement_idx = statement_idx_for_pc(vm_pc)
        /\ trace # <<>>
        /\ Last(trace) = current_statement_idx

\* C8: a torn-down session has enqueued exactly one Terminated and exactly one
\* Exited event, Terminated first.
C8_TerminatedThenExited ==
    phase = "dropped" =>
        /\ Cardinality(EventIdx("terminated")) = 1
        /\ Cardinality(EventIdx("exited")) = 1
        /\ \A t \in EventIdx("terminated") : \A e \in EventIdx("exited") : t < e

\* C9: the breakpoints stored for a file are exactly the statements resolved
\* from the lines of the last SetBreakpoints processed for that file.
C9_SetBreakpointsReplaces ==
    \A file \in Files : \A i \in TakenIdx :
        (/\ IsSetBreakpoints(i, file)
         /\ \A j \in (i + 1)..Len(taken) : ~IsSetBreakpoints(j, file))
            => BreakpointsOf(breakpoints, file) = Resolved(file, taken[i].request.lines)

\* C10: the response to a SetBreakpoints has one entry per requested line, in
\* request order, verified exactly when the line resolves; an unresolved line
\* adds nothing to the breakpoint table.
C10_VerifiedIffResolved ==
    \A file \in Files : \A i \in TakenIdx :
        IsSetBreakpoints(i, file) =>
            \A k \in ResponsesTo(taken[i].request.seq) :
                LET lines == taken[i].request.lines
                    bps == outbound[k].body.breakpoints
                IN /\ Len(bps) = Len(lines)
                   /\ \A n \in 1..Len(lines) :
                         /\ bps[n].line = lines[n]
                         /\ bps[n].verified
                               <=> statement_idxs_for_breakpoint(file, lines[n] - 1).some

----------------------------------------------------------------------------
\* What the claims about the debug information speak of.

\* The statement's start offset differs from the next statement's; the last
\* statement has no next one.
IsHittable(idx) ==
    \/ idx + 1 = StatementCount
    \/ statement_to_pc[idx + 2] # statement_to_pc[idx + 1]

\* The statements annotated with a location on the line `key`.
AnnotatedAt(key) ==
    {idx \in DOMAIN code_locations :
        \E n \in DOMAIN code_locations[idx] :
            <<code_locations[idx][n].file, code_locations[idx][n].line>> = key}

\* The (column, pc) pairs the hittable statements offer for the line `key`.
Candidates(key) ==
    UNION {{<<code_locations[idx][n].col, statement_to_pc[idx + 1]>> :
               n \in {m \in DOMAIN code_locations[idx] :
                        <<code_locations[idx][m].file,
                          code_locations[idx][m].line>> = key}} :
           idx \in {i \in AnnotatedAt(key) : IsHittable(i)}}

LexLess(a, b) == a[1] < b[1] \/ (a[1] = b[1] /\ a[2] < b[2])

LexMin(S) == CHOOSE m \in S : \A x \in S : x = m \/ LexLess(m, x)

\* C11: a non-hittable statement never contributes an entry to the line-to-pc
\* index: a line annotated by non-hittable statements only has no entry, every
\* entry's (column, pc) is that of a hittable statement annotated on the line,
\* and the last statement counts as hittable.
C11_NonHittableNeverIndexed ==
    phase = "ready" =>
        /\ DOMAIN files_data \subseteq QueryKeys
        /\ DOMAIN min_col_map = DOMAIN files_data
        /\ \A key \in QueryKeys :
              /\ (\A idx \in AnnotatedAt(key) : ~IsHittable(idx))
                    => key \notin DOMAIN files_data
              /\ key \in DOMAIN files_data
                    => /\ <<min_col_map[key].col, min_col_map[key].pc>> \in Candidates(key)
                       /\ files_data[key] = min_col_map[key].pc
              /\ (StatementCount - 1) \in AnnotatedAt(key) => key \in DOMAIN files_data

\* A line annotated by a non-hittable statement only is left out of an index
\* that has an entry for another line.
C11_Witness ==
    /\ phase = "ready"
    /\ files_data # <<>>
    /\ \E key \in QueryKeys :
          /\ AnnotatedAt(key) # {}
          /\ \A idx \in AnnotatedAt(key) : ~IsHittable(idx)
          /\ key \notin DOMAIN files_data

\* C12: for every (file, line) the index stores the pc of the lexicographic
\* minimum of (column, pc) over the hittable candidates, whatever the order in
\* which the annotation map and the locations were visited.
C12_SmallestColumnThenPc ==
    phase = "ready" =>
        /\ DOMAIN files_data = {key \in QueryKeys : Candidates(key) # {}}
        /\ \A key \in DOMAIN files_data :
              files_data[key] = LexMin(Candidates(key))[2]

\* A line with two candidates at the smallest column and different pcs resolves
\* to the lower pc.
C12_Witness ==
    /\ phase = "ready"
    /\ \E key \in DOMAIN files_data :
          \E a, b \in Candidates(key) :
              /\ a[1] = b[1]
              /\ a[2] < b[2]
              /\ \A x \in Candidates(key) : a[1] <= x[1]
              /\ files_data[key] = a[2]

\* C13 as stated: statement_idx_for_pc(pc) is the greatest statement index whose
\* start offset is <= pc; for pc the start offset of statement i the result j
\* has j >= i, the same offset, and j = i exactly when i is hittable.
C13_GreatestIndexAtOrBelowPc ==
    lookup.kind = "pc" =>
        LET j == lookup.result.value IN
        /\ statement_to_pc[j + 1] <= lookup.pc
        /\ \A i \in Statements : statement_to_pc[i + 1] <= lookup.pc => i <= j
        /\ \A i \in Statements :
              statement_to_pc[i + 1] = lookup.pc =>
                  /\ j >= i
                  /\ statement_to_pc[j + 1] = statement_to_pc[i + 1]
                  /\ (j = i <=> IsHittable(i))

\* C13 amended: when some start offset is <= pc the result is the greatest such
\* index, and when none is (pc lies before the first statement) the result is
\* index 0; the round trip from a statement's own offset is as stated.
C13_GreatestIndexOrFirst ==
    lookup.kind = "pc" =>
        LET j == lookup.result.value IN
        /\ (\E i \in Statements : statement_to_pc[i + 1] <= lookup.pc)
              => /\ statement_to_pc[j + 1] <= lookup.pc
                 /\ \A i \in Statements : statement_to_pc[i + 1] <= lookup.pc => i <= j
        /\ (\A i \in Statements : statement_to_pc[i + 1] > lookup.pc) => j = 0
        /\ \A i \in Statements :
              statement_to_pc[i + 1] = lookup.pc =>
                  /\ j >= i
                  /\ statement_to_pc[j + 1] = statement_to_pc[i + 1]
                  /\ (j = i <=> IsHittable(i))

\* The offset of a non-hittable statement was looked up, and the result is a
\* later statement at the same offset.
C13_Witness ==
    /\ lookup.kind = "pc"
    /\ \E i \in Statements :
          /\ statement_to_pc[i + 1] = lookup.pc
          /\ ~IsHittable(i)
          /\ lookup.result.value > i
          /\ statement_to_pc[lookup.result.value + 1] = lookup.pc

\* C17: get_pc_for_line answers with a pc only when the exact (file, line) has
\* an entry in the index, which is when a hittable statement is annotated on
\* that very line; for an unknown file or a line without an entry it answers
\* None, whatever the neighbouring lines hold.
C17_ExactLineOrNone ==
    lookup.kind = "line" =>
        LET key == <<lookup.file, lookup.line>> IN
        /\ lookup.result.some <=> Candidates(key) # {}
        /\ lookup.result.some => lookup.result.value = LexMin(Candidates(key))[2]
        /\ lookup.file = UnknownFile => ~lookup.result.some

\* A line without an entry was looked up while the following line of the same
\* file has one, and the answer is None.
C17_Witness ==
    /\ lookup.kind = "line"
    /\ <<lookup.file, lookup.line>> \notin DOMAIN files_data
    /\ <<lookup.file, lookup.line + 1>> \in DOMAIN files_data
    /\ ~lookup.result.some

----------------------------------------------------------------------------
\* What the claims about the call stack speak of.

\* The change of the frame count that statement_idx causes once it has executed.
DepthEffect(statement_idx, d) ==
    IF program[statement_idx + 1] = "call" THEN d + 1
    ELSE IF program[statement_idx + 1] = "return" /\ d > 0 THEN d - 1
    ELSE d

HasCodeLocation(statement_idx) == statement_idx \in DOMAIN code_locations

IsUnknownFrame(frame) == frame.name = "Unknown"

\* The lines (1-based) of the frames, in order.
FrameLines(fs) == [k \in DOMAIN fs |-> fs[k].line]

\* The number of frames a statement renders.
FrameCount(statement_idx) ==
    IF ~HasCodeLocation(statement_idx) THEN 1
    ELSE LET names == IF statement_idx \in DOMAIN function_names
                      THEN Len(function_names[statement_idx]) ELSE 1
             locs == Len(code_locations[statement_idx])
         IN IF locs <= names THEN locs ELSE names

\* The statements in rendering order as the claim has it: the current one, then
\* the stored call sites from the most recently pushed to the outermost.
RenderingOrder(ids, current) ==
    [k \in 1..(Len(ids) + 1) |-> IF k = 1 THEN current ELSE ids[Len(ids) + 2 - k]]

RECURSIVE OwnerOfFrame(_, _)
\* The statement (position in the rendering order) that the n-th frame belongs
\* to, counting each statement's frames.
OwnerOfFrame(order, n) ==
    IF n <= FrameCount(Head(order)) THEN Head(order)
    ELSE OwnerOfFrame(Tail(order), n - FrameCount(Head(order)))

RECURSIVE SumFrameCount(_)
SumFrameCount(order) ==
    IF order = <<>> THEN 0 ELSE FrameCount(Head(order)) + SumFrameCount(Tail(order))

\* C15: get_frames renders the frames of the current statement first, then those
\* of the stored call sites from the most recently pushed one to the outermost,
\* and leaves the stored stack as it was.
C15_InnermostFirst ==
    [][frames'.kind = "get_frames" /\ frames' # frames =>
          LET order == RenderingOrder(call_ids, frames'.current)
              fs == frames'.value
          IN /\ call_ids' = call_ids
             /\ action_on_new_statement' = action_on_new_statement
             /\ Len(fs) = SumFrameCount(order)
             /\ \A n \in DOMAIN fs :
                   LET owner == OwnerOfFrame(order, n) IN
                   IF HasCodeLocation(owner)
                   THEN ~IsUnknownFrame(fs[n]) /\ fs[n].line = owner + 1
                   ELSE IsUnknownFrame(fs[n])]_vars

\* Two different call sites are stored, all three statements are annotated, and
\* the rendering begins with the current statement and ends with the outermost
\* call site.
C15_Witness ==
    /\ frames.kind = "get_frames"
    /\ Len(call_ids) = 2
    /\ call_ids[1] # call_ids[2]
    /\ frames.current \notin {call_ids[1], call_ids[2]}
    /\ \A idx \in Statements : HasCodeLocation(idx)
    /\ frames.value[1].line = frames.current + 1
    /\ frames.value[Len(frames.value)].line = call_ids[1] + 1

----------------------------------------------------------------------------
\* What the claims about the queues speak of.

TakenRequests == [i \in TakenIdx |-> taken[i].request]

\* C18: the requests the session has taken with next_request and
\* try_next_request, in the order it took them, are a prefix of the requests the
\* reader thread decoded, and the rest is still queued in that order: nothing is
\* lost, duplicated or reordered.
C18_RequestsInClientOrder ==
    /\ Len(taken) <= Len(decoded)
    /\ \A i \in TakenIdx : taken[i].request = decoded[i]
    /\ decoded = TakenRequests \o inbound

\* Two requests were queued at once, the first was taken by the blocking
\* receive and the second by the non-blocking one.
C18_Witness ==
    \E i \in TakenIdx :
        /\ i + 1 \in TakenIdx
        /\ taken[i].phase = "init"
        /\ taken[i + 1].phase = "sync"
        /\ taken[i].request.command # taken[i + 1].request.command
        /\ Len(decoded) > i + 1

\* C19: what the writer thread has written to the socket is, in order, a prefix
\* of what the session enqueued with send_success, send_error and send_event.
C19_WrittenInEnqueueOrder ==
    /\ Len(written) <= nrecv
    /\ nrecv <= Len(outbound)
    /\ \A k \in DOMAIN written : written[k] = outbound[k]

\* A response and the event enqueued after it have been written, in that order,
\* while a later message is still in the channel.
C19_Witness ==
    /\ Len(written) >= 2
    /\ IsResponse(written[1])
    /\ IsEvent(written[2], "initialized")
    /\ Len(outbound) > Len(written)

\* The event that handling a request of the command emits.
EventOf(command) == IF command = "Initialize" THEN "initialized" ELSE "stopped"

\* The position on the outbound queue of the j-th event of the kind.
NthEvent(event, j) ==
    {k \in EventIdx(event) : Cardinality({e \in EventIdx(event) : e <= k}) = j}

\* C20: the Response to a request whose handling emits an event (Initialize:
\* Initialized, Pause: Stopped) is never enqueued before that event.
C20_EventBeforeItsResponse ==
    \A i \in TakenIdx :
        (Handled(i) /\ taken[i].request.command \in {"Initialize", "Pause"}) =>
            LET command == taken[i].request.command
                j == Cardinality({h \in 1..i : Handled(h)
                                     /\ taken[h].request.command = command})
            IN \A k \in ResponsesTo(taken[i].request.seq) :
                  \E e \in NthEvent(EventOf(command), j) : e < k

----------------------------------------------------------------------------
\* The session takes the request at the front of the queue in this step.
Takes(where, command) ==
    /\ phase = where
    /\ Len(taken') = Len(taken) + 1
    /\ taken'[Len(taken')].phase = where
    /\ taken'[Len(taken')].request.command = command

HandledCommand(command) ==
    {i \in TakenIdx : Handled(i) /\ taken[i].request.command = command}

\* C23: a hook invocation in Running returns to the VM only when no request is
\* left on the inbound queue: every request that was queued has been processed.
C23_HookDrainsQueue ==
    [][(phase \in {"sync", "stopped"} /\ phase' = "step") => inbound' = <<>>]_vars

\* C24: every Pause that is handled emits exactly one Stopped event; a Pause
\* taken in Running blocks the hook (the session is stopped); a Continue taken
\* while stopped clears the stop flag and leaves the blocking loop, and with no
\* request queued the hook then returns and the VM steps.
C24_PauseThenContinue ==
    /\ [](Cardinality(EventIdx("stopped")) = Cardinality(HandledCommand("Pause")))
    /\ [][Takes("sync", "Pause") =>
            /\ phase' = "stopped"
            /\ impl = "debugger" => execution_stopped']_vars
    /\ [][Takes("stopped", "Continue") =>
            /\ phase' \in {"sync", "step"}
            /\ ~execution_stopped']_vars
    /\ [][(phase = "sync" /\ inbound = <<>> /\ readerAlive /\ phase' # phase) =>
            phase' = "step"]_vars

\* A Pause was taken in Running with nothing else queued, a Continue was taken
\* while stopped, and the VM is about to execute the instruction.
C24_Witness ==
    /\ phase = "step"
    /\ inbound = <<>>
    /\ Len(taken) >= 2
    /\ taken[Len(taken) - 1].request.command = "Pause"
    /\ taken[Len(taken) - 1].phase = "sync"
    /\ taken[Len(taken)].request.command = "Continue"
    /\ taken[Len(taken)].phase = "stopped"
    /\ Cardinality(EventIdx("stopped")) = 1

\* C25: a ConfigurationDone handled while the session is stopped fails the
\* session with an error: nothing is handled after it.
C25_ConfigurationDoneWhileStoppedFails ==
    \A i \in TakenIdx :
        (taken[i].phase = "stopped"
            /\ taken[i].request.command = "ConfigurationDone") =>
            /\ phase \in {"failed", "dropped"}
            /\ result = "err"
            /\ \A j \in (i + 1)..Len(taken) : ~Handled(j)

\* The Disconnect requests pending on the inbound queue at teardown: the one
\* the teardown received and those left on the queue.
PendingDisconnects ==
    {taken[i].request.seq :
        i \in {j \in TakenIdx : ~Handled(j) /\ taken[j].request.command = "Disconnect"}}
    \cup {inbound[k].seq :
            k \in {j \in 1..Len(inbound) : inbound[j].command = "Disconnect"}}

\* C26: a success Response to a Disconnect is enqueued at teardown only, and
\* after teardown every Disconnect that was pending has exactly one Response,
\* a success, enqueued after the Terminated and Exited events.
C26_DisconnectAnsweredAtTeardownOnly ==
    /\ \A i \in TakenIdx :
          (taken[i].request.command = "Disconnect"
              /\ \E k \in ResponsesTo(taken[i].request.seq) : outbound[k].success)
            => ~Handled(i)
    /\ phase = "dropped" =>
          \A seq \in PendingDisconnects :
              /\ Cardinality(ResponsesTo(seq)) = 1
              /\ \A k \in ResponsesTo(seq) :
                    /\ outbound[k].success
                    /\ \A e \in EventIdx("terminated") \cup EventIdx("exited") : e < k

StepCommands == {"Next", "StepIn", "StepOut", "Source"}

\* C29: a Next, StepIn, StepOut or Source request that is handled has exactly
\* one Response, and a success Response only when the session went on to
\* execute an instruction: otherwise the Response is an error.
C29_StepRequestsNeverSilent ==
    [][\A c \in StepCommands :
          (\E where \in {"init", "sync", "stopped"} : Takes(where, c)) =>
              LET seq == taken'[Len(taken')].request.seq
                  responses == {k \in 1..Len(outbound') :
                                  /\ IsResponse(outbound'[k])
                                  /\ outbound'[k].request_seq = seq}
              IN /\ Cardinality(responses) = 1
                 /\ \A k \in responses : outbound'[k].success => phase' = "step"]_vars

\* The request with sequence number seq is on the inbound queue.
Queued(seq) == \E k \in 1..Len(inbound) : inbound[k].seq = seq

\* The session ended before it could take a request: the run was over, or a
\* request or the connection failed it with an error.
EndedByResult == phase \in TornDown /\ result \in {"ok", "err"}

\* C21: every request placed on the inbound queue is eventually answered, as
\* long as the session goes on: unless the run ends or the session is aborted
\* with an error first.
C21_NoRequestStarved ==
    \A seq \in 1..MaxIoRequests :
        Queued(seq) ~> (ResponsesTo(seq) # {} \/ EndedByResult)

\* The session is blocked on the inbound queue, and the reader thread is gone.
BlockedOnClosedQueue ==
    /\ phase \in {"init", "stopped"}
    /\ inbound = <<>>
    /\ ~readerAlive

\* C22: when the reader thread has stopped and the session is blocked in Init or
\* Stopped on the empty queue, the only step of the session is the failure of
\* the receive, and the session is eventually torn down with that error.
C22_ClosedConnectionEndsSession ==
    /\ [][(BlockedOnClosedQueue /\ phase' # phase) =>
            (phase' = "failed" /\ result' = "err")]_vars
    /\ BlockedOnClosedQueue ~> (phase \in TornDown /\ result = "err")

\* The session was stopped by a Pause that was answered, the reader thread
\* ended, and the session has been torn down with an error.
C22_Witness ==
    /\ phase \in TornDown
    /\ result = "err"
    /\ ~readerAlive
    /\ inbound = <<>>
    /\ taken # <<>>
    /\ Last(taken).request.command = "Pause"
    /\ Last(taken).phase = "sync"
    /\ ResponsesTo(Last(taken).request.seq) # {}

\* C27: once the session has run its Drop, the teardown of the Connection
\* eventually finishes: both joins have returned and neither thread runs.
C27_TeardownCompletes ==
    (phase = "dropped") ~> (phase = "joined" /\ ~readerAlive /\ ~writerAlive)

RECURSIVE StackIndexOfFrame(_, _, _)
\* The position in the call stack (0 for the outermost stored call, Len(ids) for
\* the current function) of the n-th frame of a rendering, index being the
\* position of the first statement of order.
StackIndexOfFrame(order, n, index) ==
    IF n <= FrameCount(Head(order)) THEN index
    ELSE StackIndexOfFrame(Tail(order), n - FrameCount(Head(order)), index - 1)

\* C28: in one stack trace the frame of the call-stack position index has id
\* 1 + 2 * index and its scope the variables reference 2 + 2 * index, so frames
\* of different positions have different ids.
C28_ObjectReferencesByPosition ==
    frames.kind = "get_frames" =>
        LET fs == frames.value
            order == RenderingOrder(call_ids, frames.current)
            index(n) == StackIndexOfFrame(order, n, Len(call_ids))
        IN /\ \A n \in DOMAIN fs :
                /\ fs[n].id = 1 + 2 * index(n)
                /\ get_scopes_for_frame(fs[n].id)[1].variables_reference
                      = 2 + 2 * index(n)
           /\ \A m, n \in DOMAIN fs : index(m) # index(n) => fs[m].id # fs[n].id

RECURSIVE UnreturnedCalls(_)
\* The call statements among the observations that have executed and not yet
\* returned, oldest first: a return removes the latest one, if there is one.
UnreturnedCalls(observations) ==
    IF observations = <<>> THEN <<>>
    ELSE LET before == UnreturnedCalls(Front(observations))
             s == Last(observations)
         IN IF program[s + 1] = "call" THEN Append(before, s)
            ELSE IF program[s + 1] = "return" /\ before # <<>> THEN Front(before)
            ELSE before

RECURSIVE CallsMinusReturns(_)
\* Calls minus returns among the observations, a return at zero counting zero.
CallsMinusReturns(observations) ==
    IF observations = <<>> THEN 0
    ELSE DepthEffect(Last(observations), CallsMinusReturns(Front(observations)))

\* C30: after any observed trace the stored depth is the number of calls minus
\* the number of returns among the earlier observations (a return on the empty
\* stack counting zero), and the stored frames are exactly the calls that have
\* executed and not yet returned.
C30_DepthIsCallsMinusReturns ==
    trace # <<>> =>
        /\ depth(call_ids) = CallsMinusReturns(Front(trace))
        /\ Last(depths) = depth(call_ids)
        /\ call_ids = UnreturnedCalls(Front(trace))

\* State::update_state has observed a call, a second call, a return and one
\* more statement: one frame is stored, that of the first call.
C30_Witness ==
    /\ Len(trace) = 4
    /\ program[trace[1] + 1] = "call"
    /\ program[trace[2] + 1] = "call"
    /\ program[trace[3] + 1] = "return"
    /\ current_statement_idx = trace[4]
    /\ vm_pc = trace[4]
    /\ depths = <<0, 1, 2, 1>>
    /\ call_ids = <<trace[1]>>

----------------------------------------------------------------------------
RECURSIVE WithoutEmptyPops(_)
\* The observations without the returns whose Pop met the empty stack.
WithoutEmptyPops(observations) ==
    IF observations = <<>> THEN <<>>
    ELSE LET s == Last(observations)
             kept == WithoutEmptyPops(Front(observations))
         IN IF program[s + 1] = "return" /\ UnreturnedCalls(Front(observations)) = <<>>
            THEN kept
            ELSE Append(kept, s)

RECURSIVE MatchedStack(_)
\* The stack of a trace in which every return has a call to match.
MatchedStack(observations) ==
    IF observations = <<>> THEN <<>>
    ELSE LET s == Last(observations)
             before == MatchedStack(Front(observations))
         IN IF program[s + 1] = "call" THEN Append(before, s)
            ELSE IF program[s + 1] = "return" THEN SubSeq(before, 1, Len(before) - 1)
            ELSE before

\* C31: an update whose pending Pop meets the empty stack leaves the stack
\* empty and defers the action of its own statement as usual, and the stored
\* stack is always the one of the same trace without those returns.
C31_PopOnEmptyIsNoOp ==
    /\ [][(trace' # trace /\ action_on_new_statement = Pop /\ call_ids = <<>>) =>
            /\ call_ids' = <<>>
            /\ action_on_new_statement'.kind =
                  LET s == Last(trace') IN
                  IF program[s + 1] = "call" THEN "Push"
                  ELSE IF program[s + 1] = "return" THEN "Pop" ELSE "None"]_vars
    /\ [](trace # <<>> =>
            call_ids = MatchedStack(WithoutEmptyPops(Front(trace))))

\* A return was observed on the empty stack, then a call, then one more
\* statement: the call's frame is stored.
C31_Witness ==
    /\ Len(trace) = 3
    /\ program[trace[1] + 1] = "return"
    /\ program[trace[2] + 1] = "call"
    /\ call_ids = <<trace[2]>>

----------------------------------------------------------------------------
----------------------------------------------------------------------------
\* The session handles a request in this step.
HandlesRequest ==
    /\ Len(taken') = Len(taken) + 1
    /\ taken'[Len(taken')].phase # "drop"

\* C33: once the writer thread has ended on a failed write, no send enqueues
\* anything; a request whose handler sends fails the session with an error, not
\* a panic (only the arms that are todo!() panic, and they send nothing); and a
\* failed session goes on to its Drop only, which is not stopped by its own
\* failing sends.
C33_WriteFailureIsConnectionLoss ==
    /\ [][~writerAlive => outbound' = outbound]_vars
    /\ [][(~writerAlive /\ HandlesRequest) =>
            /\ phase' = "failed"
            /\ result' = IF taken'[Len(taken')].request.command \in TodoCommands
                         THEN "panic" ELSE "err"]_vars
    /\ [][(phase = "failed" /\ phase' # phase) => phase' = "dropped"]_vars

\* The writer thread failed, a Threads request was then handled and left
\* unanswered, and the session has been torn down with an error.
C33_Witness ==
    /\ ~writerAlive
    /\ phase = "dropped"
    /\ result = "err"
    /\ taken # <<>>
    /\ Last(taken).request.command = "Threads"
    /\ Last(taken).phase # "drop"
    /\ ResponsesTo(Last(taken).request.seq) = {}
    /\ EventIdx("terminated") = {}

----------------------------------------------------------------------------
\* C34: get_variables returns normally for the variables reference of every
\* frame that get_frames has returned, whatever the stack has become since.
C34_GetVariablesInRange == lookup.kind # "panic"

----------------------------------------------------------------------------
\* C35: with the client's requests all queued beforehand, the initialization
\* loop takes the requests up to ConfigurationDone and no further one, leaving
\* the rest on the queue; requests are taken in the order sent; and when the
\* first hook invocation returns to the VM none of them is left on the queue.
C35_InitStopsAtConfigurationDone ==
    /\ [][(Takes("init", "ConfigurationDone") /\ phase' # "failed") =>
            (phase' = "running" /\ inbound' = Tail(inbound))]_vars
    /\ [](\A i \in TakenIdx :
            taken[i].phase = "init" =>
                \A j \in 1..(i - 1) : taken[j].request.command # "ConfigurationDone")
    /\ [](\A i \in TakenIdx : taken[i].request.seq = i)
    /\ [](phase = "step" => inbound = <<>>)

----------------------------------------------------------------------------
\* C36: an update of the breakpoint table for file f leaves the entries of every
\* other file, the two flags, the current statement and the call stack as they
\* were; verify_and_set_breakpoint for a line that does not resolve leaves the
\* whole table as it was, and for a line that resolves only adds to the entry
\* of f; clear_breakpoints removes the entry of f.
C36_BreakpointUpdatesAreLocal ==
    [][LET f == lookup'.file IN
       /\ \A g \in (DOMAIN breakpoints \cup DOMAIN breakpoints') \ {f} :
             /\ g \in DOMAIN breakpoints
             /\ g \in DOMAIN breakpoints'
             /\ breakpoints'[g] = breakpoints[g]
       /\ (lookup'.kind = "verify_and_set_breakpoint" /\ ~lookup'.result.some) =>
             breakpoints' = breakpoints
       /\ (lookup'.kind = "verify_and_set_breakpoint" /\ lookup'.result.some) =>
             /\ f \in DOMAIN breakpoints'
             /\ BreakpointsOf(breakpoints, f) \subseteq breakpoints'[f]
       /\ lookup'.kind = "clear_breakpoints" => f \notin DOMAIN breakpoints'
       /\ UNCHANGED <<configuration_done, execution_stopped, current_statement_idx,
                      call_ids, action_on_new_statement>>]_vars

\* Both files have breakpoints stored, and the last update was a
\* verify_and_set_breakpoint for a line of b.cairo that does not resolve.
C36_Witness ==
    /\ DOMAIN breakpoints = BreakpointFiles
    /\ \A f \in BreakpointFiles : breakpoints[f] # {}
    /\ lookup.kind = "verify_and_set_breakpoint"
    /\ lookup.file = "b.cairo"
    /\ ~lookup.result.some

----------------------------------------------------------------------------
\* The commands that only answer.
InertCommands == InspectCommands \cup {"Launch", "Initialize"}

\* C37: handling Threads, StackTrace, Scopes, Variables, Evaluate, Launch or
\* Initialize leaves the configuration flag, the stop flag, the breakpoint
\* table, the current statement and the call stack as they were, and a stopped
\* session stopped; the session leaves the Stopped state for Running only by
\* handling a Continue.
C37_InertRequestsKeepState ==
    /\ [][\A c \in InertCommands :
            (\E where \in {"init", "sync", "stopped"} : Takes(where, c)) =>
                /\ UNCHANGED <<configuration_done, execution_stopped, breakpoints,
                               current_statement_idx, call_ids,
                               action_on_new_statement>>
                /\ phase = "stopped" => phase' = "stopped"]_vars
    /\ [][(phase = "stopped" /\ phase' \in {"sync", "step", "running"}) =>
            Takes("stopped", "Continue")]_vars

\* The session was stopped by a Pause and has since answered a Threads request:
\* it is still stopped.
C37_Witness ==
    /\ phase = "stopped"
    /\ Len(taken) >= 2
    /\ taken[Len(taken) - 1].request.command = "Pause"
    /\ Last(taken).request.command = "Threads"
    /\ Last(taken).phase = "stopped"
    /\ ResponsesTo(Last(taken).request.seq) # {}

----------------------------------------------------------------------------
\* No write has failed: every message the writer thread received was written.
NoWriteFailure == Len(written) = nrecv

\* C38: barring a write failure, when the writer thread has ended, and so when
\* it has been joined, every message enqueued on the outbound queue, the
\* Terminated and Exited events of the Drop included, has been written, in order.
C38_NothingLostAtTeardown ==
    /\ (~writerAlive /\ NoWriteFailure) => written = outbound
    /\ (phase = "joined" /\ NoWriteFailure) =>
          /\ ~writerAlive
          /\ written = outbound

\* Teardown has finished without a write failure: a response and the two
\* events of the Drop were enqueued and all have been written.
C38_Witness ==
    /\ phase = "joined"
    /\ NoWriteFailure
    /\ written = outbound
    /\ Len(outbound) >= 3
    /\ IsEvent(outbound[Len(outbound)], "exited") \/ IsEvent(outbound[Len(outbound)], "terminated")
    /\ \E k \in 1..Len(outbound) : IsResponse(outbound[k])

----------------------------------------------------------------------------
\* C39: a Stopped event is enqueued only by a step that takes the session from
\* running (the hook draining requests) to stopped, and between any two Stopped
\* events the Response of a Continue has been enqueued.
C39_StoppedOnlyOnTransition ==
    /\ [][(\E k \in 1..Len(outbound') :
              k > Len(outbound) /\ IsEvent(outbound'[k], "stopped")) =>
            (phase = "sync" /\ phase' = "stopped")]_vars
    /\ [](\A k1, k2 \in EventIdx("stopped") :
            k1 < k2 =>
                \E m \in (k1 + 1)..(k2 - 1) :
                    /\ IsResponse(outbound[m])
                    /\ outbound[m].body.name = "Continue")

====
